---- MODULE Spec2Model ----
(***************************************************************************)
(* Model of the multi-timeframe signal and backtest engine of              *)
(* ai-service/signal_api.py.                                               *)
(*                                                                         *)
(* Numbers.  The service computes in binary floating point; the model      *)
(* computes the same formulas exactly, in fixed units or as fractions:     *)
(*   votes            units of 0.05          (0.6 -> 12, 1 -> 20)          *)
(*   scores           units of 1/2400        (0.6 -> 1440, 0.4 -> 960)     *)
(*   atr_pct          units of 0.0001        (0.0005 -> 5, 0.04 -> 400)    *)
(*   bb_width, dist_from_mid_atr, cmf   units of 0.01                      *)
(*   stoch_rsi_k/d, vwap_dev_atr        units of 0.1                       *)
(*   prices, atr      units of 0.01 (the precision of round(x, 2))         *)
(*   returns          fractions <<numerator, denominator>>                 *)
(* An undefined value (None, NaN) is the value NaN below.                  *)
(***************************************************************************)
EXTENDS Integers, Sequences, FiniteSets, TLC

VARIABLES
    base_row, h1_row, h4_row,   \* the three rows handed to compute_signal_row
    sig_pc,                     \* "ready" before the call, "done" after it
    sig_side, sig_score,        \* what compute_signal_row returned
    bt_signals,                 \* backtest_signals: the signal history (signals)
    bt_frame,                   \* the bars re-read through fetch_ohlcv (base_frame)
    bt_params,                  \* threshold, horizon, costs, position size, mode, bootstrap
    bt_pc,                      \* "ready", then "done" or "raised"
    bt_active,                  \* the trades (the frame called active)
    bt_report,                  \* the report returned
    opt_signals,                \* optimize_params: generate_signal_history's result
    opt_frame,                  \* the bars each backtest_signals call re-reads
    opt_args,                   \* thresholds, horizons, costs, target_hit, ...
    opt_pc,                     \* "ready", then "returned" or "raised"
    opt_result,                 \* <<>> (nothing returned) or <<candidate>>
    opt_locals,                 \* best, closest and the exception at the end of the loop
    fetch_cache,                \* fetch_ohlcv: the _OHLCV_CACHE entry of the key, <<>> or <<[ts, rows]>>
    fetch_now,                  \* time.time(), in units of 0.2 s
    fetch_nsources,             \* len(DATA_SOURCES)
    fetch_pc,                   \* "start", "request", "sleep", then "returned" or "raised"
    fetch_src, fetch_attempt,   \* the position in the two loops
    fetch_errors,               \* the list errors
    fetch_slept,                \* the durations passed to time.sleep, in units of 0.2 s
    fetch_result,               \* what the call returned or raised
    cache_store,                \* the three cache dicts at one key each: <<>> or <<[ts, payload]>>
    cache_pc,                   \* per thread: "idle", "put" (tuple built), "get" (rec looked up)
    cache_on,                   \* per thread: the cache its call works on
    cache_rec,                  \* per thread: the local tuple (put) or the local rec (get)
    cache_seen,                 \* per thread: what its last get unpacked from rec
    cache_ops,                  \* per thread: the number of calls it has started
    cs_base, cs_h1, cs_h4,      \* compute_signal: the last rows of the three indicator frames
    cs_opt,                     \* what _get_optimizer_suggestion returned: <<>> (None) or <<dict>>
    cs_pc,                      \* "ready" before the call, "done" after it
    cs_result,                  \* the dict compute_signal returned
    req_cache,                  \* _SIG_CACHE: per key <<>> or <<[ts, data]>>
    req_now,                    \* time.time(), in seconds
    req_call,                   \* the last request: endpoint, symbol, how compute_signal ended
    req_response,               \* the response the caller received for it
    lv_args,                    \* adaptive_sl_tp: price, atr, side, adx, atr_pct
    lv_pc,                      \* "ready" before the call, "done" after it
    lv_out,                     \* the pair (sl, tp) it returned
    sg_cache,                   \* _OPT_CACHE at one key: <<>> or <<[ts, best]>>
    sg_now,                     \* time.time(), in seconds
    sg_pc,                      \* per caller: "idle", or "computing" inside optimize_params
    sg_start,                   \* per caller: its local now
    sg_calls,                   \* per caller: the number of calls it has started
    sg_ret,                     \* per caller: what its last call returned
    sw_now,                     \* time.time(), in seconds
    sw_latest,                  \* the open_time of the provider's latest 15m bar, as a bar number
    sw_cache,                   \* _OHLCV_CACHE at the sweep's key: <<>> or <<[ts, last]>>
    sw_signals,                 \* the last bar number of the signal history, 0 before it exists
    sw_frames,                  \* the last bar number of base_frame in each cell evaluated
    sw_pc,                      \* "start", "cells", then "returned" or "raised"
    ind_fails,                  \* add_indicators: the indicators whose computation raises
    ind_pc,                     \* [at, step]: "running" at a step, "returned" or "raised"
    ind_df                      \* the status of each indicator column of df

sigVars == <<base_row, h1_row, h4_row, sig_pc, sig_side, sig_score>>
btVars == <<bt_signals, bt_frame, bt_params, bt_pc, bt_active, bt_report>>
optVars == <<opt_signals, opt_frame, opt_args, opt_pc, opt_result, opt_locals>>

fetchVars == <<fetch_cache, fetch_now, fetch_nsources, fetch_pc, fetch_src, fetch_attempt,
               fetch_errors, fetch_slept, fetch_result>>

cacheVars == <<cache_store, cache_pc, cache_on, cache_rec, cache_seen, cache_ops>>

\* the service layer: caches, request handlers
csVars == <<cs_base, cs_h1, cs_h4, cs_opt, cs_pc, cs_result>>

reqVars == <<req_cache, req_now, req_call, req_response>>

lvVars == <<lv_args, lv_pc, lv_out>>

sgVars == <<sg_cache, sg_now, sg_pc, sg_start, sg_calls, sg_ret>>

swVars == <<sw_now, sw_latest, sw_cache, sw_signals, sw_frames, sw_pc>>

indVars == <<ind_fails, ind_pc, ind_df>>

extVars == <<sgVars, swVars, indVars>>

svcVars == <<cacheVars, csVars, reqVars, lvVars, extVars>>

vars == <<sigVars, btVars, optVars, fetchVars, svcVars>>

\* what each component's actions leave alone
sigOthers == <<btVars, optVars, fetchVars, svcVars>>
btOthers == <<sigVars, optVars, fetchVars, svcVars>>
optOthers == <<sigVars, btVars, fetchVars, svcVars>>
fetchOthers == <<sigVars, btVars, optVars, svcVars>>
coreVars == <<sigVars, btVars, optVars, fetchVars>>
cacheOthers == <<coreVars, csVars, reqVars, lvVars, extVars>>
csOthers == <<coreVars, cacheVars, reqVars, lvVars, extVars>>
reqOthers == <<coreVars, cacheVars, csVars, lvVars, extVars>>
lvOthers == <<coreVars, cacheVars, csVars, reqVars, extVars>>
handlerVars == <<cacheVars, csVars, reqVars, lvVars>>
sgOthers == <<coreVars, handlerVars, swVars, indVars>>
swOthers == <<coreVars, handlerVars, sgVars, indVars>>
indOthers == <<coreVars, handlerVars, sgVars, swVars>>

(***************************************************************************)
(* Undefined values and safe_num                                           *)
(***************************************************************************)
NaN == -1000000

\* safe_num(x): None for a value that is not a finite number, else the value.
safe_num(x) == IF x = NaN THEN NaN ELSE x

Max(a, b) == IF a >= b THEN a ELSE b
Min(a, b) == IF a <= b THEN a ELSE b

(***************************************************************************)
(* Rows of the enriched frame (add_indicators): the fields read by         *)
(* regime_filters and directional_vote.                                    *)
(***************************************************************************)
UndefRow ==
    [ adx |-> NaN, atr_pct |-> NaN, bb_width |-> NaN, squeeze_on |-> FALSE,
      dist_from_mid_atr |-> NaN, mfi |-> NaN, cmf |-> NaN, chop |-> NaN,
      ema_fast |-> NaN, ema_slow |-> NaN, ema_fast_slope |-> NaN,
      ema_slow_slope |-> NaN, macd_hist |-> NaN, rsi |-> NaN, bb_mid |-> NaN,
      close |-> NaN, stoch_rsi_k |-> NaN, stoch_rsi_d |-> NaN, vwap |-> NaN,
      donchian_break_up |-> 0, donchian_break_dn |-> 0, obv_slope |-> NaN,
      vwap_dev_atr |-> NaN, atr |-> NaN ]

(***************************************************************************)
(* regime_filters                                                          *)
(***************************************************************************)
AdxOk(row) == safe_num(row.adx) # NaN /\ safe_num(row.adx) >= 12

\* Mutant of VolOk: the lower edge of the volatility window is not tested.
VolOkNoFloor(row) ==
    /\ safe_num(row.atr_pct) # NaN /\ safe_num(row.atr_pct) <= 400
    /\ row.squeeze_on # TRUE
    /\ ~(safe_num(row.dist_from_mid_atr) = NaN \/ safe_num(row.dist_from_mid_atr) < 15)
    /\ ~(safe_num(row.bb_width) # NaN
            /\ (safe_num(row.bb_width) < 1 \/ safe_num(row.bb_width) > 25))
    /\ ~(safe_num(row.mfi) # NaN /\ safe_num(row.cmf) # NaN
            /\ safe_num(row.mfi) < 35 /\ safe_num(row.cmf) < 0)
    /\ ~(safe_num(row.chop) # NaN /\ safe_num(row.chop) > 61)

VolOk(row) ==
    /\ safe_num(row.atr_pct) # NaN
    /\ 5 <= safe_num(row.atr_pct) /\ safe_num(row.atr_pct) <= 400
    /\ row.squeeze_on # TRUE
    /\ ~(safe_num(row.dist_from_mid_atr) = NaN \/ safe_num(row.dist_from_mid_atr) < 15)
    /\ ~(safe_num(row.bb_width) # NaN
            /\ (safe_num(row.bb_width) < 1 \/ safe_num(row.bb_width) > 25))
    /\ ~(safe_num(row.mfi) # NaN /\ safe_num(row.cmf) # NaN
            /\ safe_num(row.mfi) < 35 /\ safe_num(row.cmf) < 0)
    /\ ~(safe_num(row.chop) # NaN /\ safe_num(row.chop) > 61)

\* regime_filters(row) returns (adx_ok, vol_ok)
regime_filters(row) == [adx_ok |-> AdxOk(row), vol_ok |-> VolOk(row)]

(***************************************************************************)
(* directional_vote, in units of 0.05                                      *)
(***************************************************************************)
\* a variant whose cross term is not followed by the hard cap
EmaComponentNoCap(row) ==
    (IF safe_num(row.ema_fast) # NaN /\ safe_num(row.ema_slow) # NaN
     THEN (IF row.ema_fast > row.ema_slow THEN 20 ELSE -20) ELSE 0)
    + (IF safe_num(row.ema_fast_slope) # NaN
       THEN (IF row.ema_fast_slope > 0 THEN 4 ELSE -4) ELSE 0)
    + (IF safe_num(row.ema_slow_slope) # NaN
       THEN (IF row.ema_slow_slope > 0 THEN 4 ELSE -4) ELSE 0)

EmaComponent(row) ==
    LET cross == IF safe_num(row.ema_fast) # NaN /\ safe_num(row.ema_slow) # NaN
                 THEN (IF row.ema_fast > row.ema_slow THEN 12 ELSE -12) ELSE 0
        fs    == IF safe_num(row.ema_fast_slope) # NaN
                 THEN (IF row.ema_fast_slope > 0 THEN 4 ELSE -4) ELSE 0
        ss    == IF safe_num(row.ema_slow_slope) # NaN
                 THEN (IF row.ema_slow_slope > 0 THEN 4 ELSE -4) ELSE 0
        raw   == cross + fs + ss
    IN  IF raw > 20 THEN 20 ELSE IF raw < -20 THEN -20 ELSE raw

directional_vote(row) ==
    LET macd == IF safe_num(row.macd_hist) # NaN
                THEN (IF row.macd_hist > 0 THEN 20 ELSE -20) ELSE 0
        rsi  == IF safe_num(row.rsi) = NaN THEN 0
                ELSE IF row.rsi >= 55 THEN 10
                ELSE IF row.rsi <= 45 THEN -10 ELSE 0
        \* "if safe_num(bb_mid) and safe_num(close)": None and 0 are both falsy
        bb   == IF safe_num(row.bb_mid) # NaN /\ row.bb_mid # 0
                   /\ safe_num(row.close) # NaN /\ row.close # 0
                THEN (IF row.close > row.bb_mid THEN 10 ELSE -10) ELSE 0
        st   == IF safe_num(row.stoch_rsi_k) # NaN /\ safe_num(row.stoch_rsi_d) # NaN
                THEN (IF row.stoch_rsi_k > 8 /\ row.stoch_rsi_d > 8 THEN -10
                      ELSE IF row.stoch_rsi_k < 2 /\ row.stoch_rsi_d < 2 THEN 10
                      ELSE 0)
                ELSE 0
        vw   == IF safe_num(row.vwap) # NaN /\ safe_num(row.close) # NaN
                THEN (IF row.close > row.vwap THEN 5 ELSE -5) ELSE 0
        dc   == IF row.donchian_break_up = 1 THEN 5
                ELSE IF row.donchian_break_dn = 1 THEN -5 ELSE 0
        obv  == IF safe_num(row.obv_slope) = NaN THEN 0
                ELSE IF row.obv_slope > 0 THEN 4
                ELSE IF row.obv_slope < 0 THEN -4 ELSE 0
        dev  == IF safe_num(row.vwap_dev_atr) = NaN THEN 0
                ELSE IF row.vwap_dev_atr > 15 THEN -5
                ELSE IF row.vwap_dev_atr < -15 THEN 5 ELSE 0
    IN  EmaComponent(row) + macd + rsi + bb + st + vw + dc + obv + dev

(***************************************************************************)
(* score_from_components, in units of 1/2400                               *)
(***************************************************************************)
\* norm(v) = max(0, min(1, (v + 3) / 6)), in units of 1/120
norm(v) == Max(0, Min(120, v + 60))

Align(votes_base, votes_h1, votes_h4) ==
    IF votes_base > 0
    THEN (IF votes_h1 >= 0 THEN 600 ELSE 0) + (IF votes_h4 >= 0 THEN 600 ELSE 0)
    ELSE IF votes_base < 0
    THEN (IF votes_h1 <= 0 THEN 600 ELSE 0) + (IF votes_h4 <= 0 THEN 600 ELSE 0)
    ELSE 0

RawScore(votes_base, votes_h1, votes_h4, adx_ok, vol_ok) ==
    9 * norm(votes_base) + 6 * norm(votes_h1) + 3 * norm(votes_h4)
      + Align(votes_base, votes_h1, votes_h4)
      + (IF adx_ok THEN 480 ELSE -480) + (IF vol_ok THEN 480 ELSE -480)

\* Mutant of score_from_components: the final clamp is missing.
score_unclamped(votes_base, votes_h1, votes_h4, adx_ok, vol_ok) ==
    RawScore(votes_base, votes_h1, votes_h4, adx_ok, vol_ok)

score_from_components(votes_base, votes_h1, votes_h4, adx_ok, vol_ok) ==
    Max(0, Min(2400, RawScore(votes_base, votes_h1, votes_h4, adx_ok, vol_ok)))

(***************************************************************************)
(* compute_signal_row                                                      *)
(***************************************************************************)
GatedSide(v_base, v_h1, v_h4, adx_ok, vol_ok) ==
    LET bias_long  == v_h1 >= 10 /\ v_h4 >= 10
        bias_short == v_h1 <= -10 /\ v_h4 <= -10
        lo == IF bias_long THEN -5 ELSE -2
        hi == IF bias_short THEN 5 ELSE 2
    IN  IF v_base > 0 /\ v_h1 >= lo /\ v_h4 >= lo /\ adx_ok /\ vol_ok THEN "BUY"
        ELSE IF v_base < 0 /\ v_h1 <= hi /\ v_h4 <= hi /\ adx_ok /\ vol_ok THEN "SELL"
        ELSE "HOLD"

compute_signal_row(b, r1, r4) ==
    LET f      == regime_filters(b)
        v_base == directional_vote(b)
        v_h1   == directional_vote(r1)
        v_h4   == directional_vote(r4)
        side   == GatedSide(v_base, v_h1, v_h4, f.adx_ok, f.vol_ok)
        score  == score_from_components(v_base, v_h1, v_h4, f.adx_ok, f.vol_ok)
    IN  [ side  |-> IF side = "HOLD"
                    THEN (IF score >= 1440 THEN "BUY"
                          ELSE IF score <= 960 THEN "SELL" ELSE "HOLD")
                    ELSE side,
          score |-> score ]

(***************************************************************************)
(* Exact fractions <<n, d>>, d > 0, in lowest terms.  A float division by  *)
(* zero gives RatNaN (0/0) or an infinity (x/0).                           *)
(***************************************************************************)
Abs(x) == IF x < 0 THEN -x ELSE x
Sign(x) == IF x > 0 THEN 1 ELSE IF x < 0 THEN -1 ELSE 0

RECURSIVE Gcd(_, _)
Gcd(a, b) == IF b = 0 THEN a ELSE Gcd(b, a % b)

Rat(n, d) ==
    LET g == Gcd(Abs(n), Abs(d))
    IN  <<Sign(d) * (n \div g), Abs(d) \div g>>

Rat0 == <<0, 1>>
Rat1 == <<1, 1>>
RatNaN == <<0, 0>>
RatInf == <<1, 0>>
RatNegInf == <<-1, 0>>
IsFinite(a) == a[2] # 0

RatNeg(a) == <<-a[1], a[2]>>
RatAdd(a, b) ==
    LET l == (a[2] \div Gcd(a[2], b[2])) * b[2]
    IN  Rat(a[1] * (l \div a[2]) + b[1] * (l \div b[2]), l)
RatSub(a, b) == RatAdd(a, RatNeg(b))
RatMul(a, b) ==
    LET g1 == Gcd(Abs(a[1]), b[2])
        g2 == Gcd(Abs(b[1]), a[2])
    IN  Rat((a[1] \div g1) * (b[1] \div g2), (a[2] \div g2) * (b[2] \div g1))
RatScale(k, a) == RatMul(<<k, 1>>, a)
\* float division: x/0 is nan or +-inf, never an exception
RatDiv(a, b) ==
    IF b[1] = 0
    THEN (IF a[1] = 0 THEN RatNaN ELSE IF a[1] > 0 THEN RatInf ELSE RatNegInf)
    ELSE RatMul(a, <<Sign(b[1]) * b[2], Abs(b[1])>>)
RatAbs(a) == <<Abs(a[1]), a[2]>>

\* a/b < c/d for b, d > 0, by comparing the continued fractions
RECURSIVE FracLess(_, _, _, _)
FracLess(a, b, c, d) ==
    LET qa == a \div b
        qc == c \div d
        ra == a % b
        rc == c % d
    IN  IF qa # qc THEN qa < qc
        ELSE IF ra = 0 THEN rc > 0
        ELSE IF rc = 0 THEN FALSE
        ELSE FracLess(d, rc, b, ra)

RatLess(a, b) == FracLess(a[1], a[2], b[1], b[2])
RatLeq(a, b) == a = b \/ RatLess(a, b)
RatPos(a) == a[2] # 0 /\ a[1] > 0
RatNegative(a) == a[2] # 0 /\ a[1] < 0

RECURSIVE RatSum(_)
RatSum(xs) == IF xs = <<>> THEN Rat0 ELSE RatAdd(Head(xs), RatSum(Tail(xs)))

\* the cumulative sums / products / maxima of a column
RECURSIVE CumSum(_, _)
CumSum(xs, acc) ==
    IF xs = <<>> THEN <<>>
    ELSE <<RatAdd(acc, Head(xs))>> \o CumSum(Tail(xs), RatAdd(acc, Head(xs)))
RECURSIVE CumProd(_, _)
CumProd(xs, acc) ==
    IF xs = <<>> THEN <<>>
    ELSE <<RatMul(acc, Head(xs))>> \o CumProd(Tail(xs), RatMul(acc, Head(xs)))
RECURSIVE CumMaxFrom(_, _)
CumMaxFrom(xs, m) ==
    IF xs = <<>> THEN <<>>
    ELSE LET m2 == IF RatLess(m, Head(xs)) THEN Head(xs) ELSE m
         IN  <<m2>> \o CumMaxFrom(Tail(xs), m2)
CumMax(xs) == IF xs = <<>> THEN <<>> ELSE <<Head(xs)>> \o CumMaxFrom(Tail(xs), Head(xs))

\* Series.min(): the smallest value that is not nan; nan when there is none
RECURSIVE MinSkipNaN(_, _)
MinSkipNaN(xs, m) ==
    IF xs = <<>> THEN m
    ELSE IF Head(xs) = RatNaN THEN MinSkipNaN(Tail(xs), m)
    ELSE IF m = RatNaN \/ RatLess(Head(xs), m) THEN MinSkipNaN(Tail(xs), Head(xs))
    ELSE MinSkipNaN(Tail(xs), m)

(***************************************************************************)
(* adaptive_sl_tp.  Prices and atr in units of 0.01; k in tenths.          *)
(***************************************************************************)
\* round(x, 2) of a value given in units of 0.001 (ties to even)
Round2(x10) ==
    LET q == x10 \div 10
        r == x10 % 10
    IN  IF r < 5 THEN q ELSE IF r > 5 THEN q + 1 ELSE IF q % 2 = 0 THEN q ELSE q + 1

\* Python truth of an optional number: None and 0 are false
Truthy(x) == x # NaN /\ x # 0

adaptive_sl_tp(price, atr, side, adx, atr_pct) ==
    IF ~(Truthy(price) /\ Truthy(atr) /\ atr > 0) THEN [sl |-> NaN, tp |-> NaN]
    ELSE LET tp_k == 20 + (IF Truthy(adx) /\ adx >= 20 THEN 5 ELSE 0)
             sl_k == IF Truthy(atr_pct) /\ atr_pct <= 200 THEN 12 ELSE 15
         IN  IF side = "BUY"
             THEN [sl |-> Round2(10 * price - sl_k * atr), tp |-> Round2(10 * price + tp_k * atr)]
             ELSE IF side = "SELL"
             THEN [sl |-> Round2(10 * price + sl_k * atr), tp |-> Round2(10 * price - tp_k * atr)]
             ELSE [sl |-> NaN, tp |-> NaN]

(***************************************************************************)
(* Inputs of the signal specification                                      *)
(***************************************************************************)
\* Every component bullish, every component bearish.
BullRow ==
    [UndefRow EXCEPT !.ema_fast = 101, !.ema_slow = 100, !.ema_fast_slope = 1,
        !.ema_slow_slope = 1, !.macd_hist = 1, !.rsi = 60, !.bb_mid = 100,
        !.close = 101, !.stoch_rsi_k = 1, !.stoch_rsi_d = 1, !.vwap = 100,
        !.donchian_break_up = 1, !.obv_slope = 1, !.vwap_dev_atr = -16]

BearRow ==
    [UndefRow EXCEPT !.ema_fast = 100, !.ema_slow = 100, !.ema_fast_slope = 0,
        !.ema_slow_slope = 0, !.macd_hist = 0, !.rsi = 40, !.bb_mid = 100,
        !.close = 100, !.stoch_rsi_k = 9, !.stoch_rsi_d = 9, !.vwap = 100,
        !.donchian_break_dn = 1, !.obv_slope = -1, !.vwap_dev_atr = 16]

VoteRows ==
    { [UndefRow EXCEPT !.ema_fast_slope = s, !.rsi = r] :
        s \in {NaN, -1, 1}, r \in {NaN, 40, 60} }
    \cup {BullRow, BearRow}

\* A row that passes both regime gates, and its one-field deviations.
GoodRegime ==
    [ adx |-> 25, atr_pct |-> 100, bb_width |-> 10, squeeze_on |-> FALSE,
      dist_from_mid_atr |-> 50, mfi |-> 50, cmf |-> 1, chop |-> 50 ]

RegimeRows ==
    { [GoodRegime EXCEPT !.adx = a, !.atr_pct = p] :
        a \in {NaN, 11, 12}, p \in {NaN, 0, 4, 5, 400, 401} }
    \cup { [GoodRegime EXCEPT !.squeeze_on = TRUE] }
    \cup { [GoodRegime EXCEPT !.dist_from_mid_atr = d] : d \in {NaN, 14, 15} }
    \cup { [GoodRegime EXCEPT !.bb_width = w] : w \in {NaN, 0, 1, 25, 26} }
    \cup { [GoodRegime EXCEPT !.mfi = m, !.cmf = c] : m \in {NaN, 34, 35}, c \in {-1, 0} }
    \cup { [GoodRegime EXCEPT !.chop = c] : c \in {NaN, 61, 62} }

WithRegime(row, g) ==
    [row EXCEPT !.adx = g.adx, !.atr_pct = g.atr_pct, !.bb_width = g.bb_width,
        !.squeeze_on = g.squeeze_on, !.dist_from_mid_atr = g.dist_from_mid_atr,
        !.mfi = g.mfi, !.cmf = g.cmf, !.chop = g.chop]

BaseRows == { WithRegime(v, g) : v \in VoteRows, g \in RegimeRows }

(***************************************************************************)
(* The components a specification leaves alone stay in these idle states.  *)
(***************************************************************************)
IdleBacktest ==
    /\ bt_signals = <<>>
    /\ bt_frame = <<>>
    /\ bt_params = [mode |-> "idle"]
    /\ bt_pc = "idle"
    /\ bt_active = <<>>
    /\ bt_report = [trades |-> 0]

IdleOptimize ==
    /\ opt_signals = <<>>
    /\ opt_frame = <<>>
    /\ opt_args = [mode |-> "idle"]
    /\ opt_pc = "idle"
    /\ opt_result = <<>>
    /\ opt_locals = [error |-> "none", best |-> <<>>, closest |-> <<>>, cands |-> <<>>,
                    fold_ranges |-> <<>>]

IdleFetch ==
    /\ fetch_cache = <<>>
    /\ fetch_now = 0
    /\ fetch_nsources = 1
    /\ fetch_pc = "idle"
    /\ fetch_src = 1
    /\ fetch_attempt = 0
    /\ fetch_errors = <<>>
    /\ fetch_slept = <<>>
    /\ fetch_result = [kind |-> "none"]

CacheNames == {"ohlcv", "sig", "opt"}

NThreads == 2

Threads == 1 .. NThreads

IdleCache ==
    /\ cache_store = [c \in CacheNames |-> <<>>]
    /\ cache_pc = [t \in Threads |-> "off"]
    /\ cache_on = [t \in Threads |-> "sig"]
    /\ cache_rec = [t \in Threads |-> <<>>]
    /\ cache_seen = [t \in Threads |-> <<>>]
    /\ cache_ops = [t \in Threads |-> 0]

NoResult == [side |-> "NONE"]

IdleCompute ==
    /\ cs_base = UndefRow
    /\ cs_h1 = UndefRow
    /\ cs_h4 = UndefRow
    /\ cs_opt = <<>>
    /\ cs_pc = "idle"
    /\ cs_result = NoResult

SigKeys == {"BTCUSDT", "ETHUSDT"}

NoCall == [endpoint |-> "none", symbol |-> "BTCUSDT", outcome |-> "none"]

NoResponse == [status |-> 0]

IdleRequest ==
    /\ req_cache = [k \in SigKeys |-> <<>>]
    /\ req_now = 0
    /\ req_call = NoCall
    /\ req_response = NoResponse

IdleLevels ==
    /\ lv_args = [price |-> NaN, atr |-> NaN, side |-> "HOLD", adx |-> NaN, atr_pct |-> NaN]
    /\ lv_pc = "idle"
    /\ lv_out = [sl |-> NaN, tp |-> NaN]

Callers == {"c1", "c2"}
NoReturn == [kind |-> "none"]

IdleSuggest ==
    /\ sg_cache = <<>>
    /\ sg_now = 0
    /\ sg_pc = [c \in Callers |-> "idle"]
    /\ sg_start = [c \in Callers |-> 0]
    /\ sg_calls = [c \in Callers |-> 0]
    /\ sg_ret = [c \in Callers |-> NoReturn]

IdleSweep ==
    /\ sw_now = 0
    /\ sw_latest = 0
    /\ sw_cache = <<>>
    /\ sw_signals = 0
    /\ sw_frames = <<>>
    /\ sw_pc = "idle"

IdleIndicators ==
    /\ ind_fails = {}
    /\ ind_pc = [at |-> "idle", step |-> 0]
    /\ ind_df = <<>>

IdleExt == IdleSuggest /\ IdleSweep /\ IdleIndicators

IdleHandlers == IdleCache /\ IdleCompute /\ IdleRequest /\ IdleLevels

IdleService == IdleHandlers /\ IdleExt

IdleCore ==
    /\ base_row = UndefRow
    /\ h1_row = UndefRow
    /\ h4_row = UndefRow
    /\ sig_pc = "idle"
    /\ sig_side = "NONE"
    /\ sig_score = 0
    /\ IdleBacktest
    /\ IdleOptimize
    /\ IdleFetch

IdleSignal ==
    /\ base_row = UndefRow
    /\ h1_row = UndefRow
    /\ h4_row = UndefRow
    /\ sig_pc = "idle"
    /\ sig_side = "NONE"
    /\ sig_score = 0

(***************************************************************************)
(* Signal specification: compute_signal_row on one (base, 1h, 4h) triple   *)
(***************************************************************************)
InitSignal ==
    /\ IdleService
    /\ base_row \in BaseRows
    /\ h1_row \in VoteRows
    /\ h4_row \in VoteRows
    /\ sig_pc = "ready"
    /\ sig_side = "NONE"
    /\ sig_score = 0
    /\ IdleBacktest
    /\ IdleOptimize
    /\ IdleFetch

ComputeSignalRow ==
    /\ sig_pc = "ready"
    /\ LET r == compute_signal_row(base_row, h1_row, h4_row)
       IN  /\ sig_side' = r.side
           /\ sig_score' = r.score
    /\ sig_pc' = "done"
    /\ UNCHANGED <<base_row, h1_row, h4_row>>
    /\ UNCHANGED sigOthers

NextSignal == ComputeSignalRow

SpecSignal == InitSignal /\ [][NextSignal]_vars

(***************************************************************************)
(* backtest_signals                                                        *)
(*   a signals row: [ts, close, atr, adx, atr_pct, side, score]; ts is the *)
(*   row's label (open_time), the position of its bar in the full history  *)
(*   a base_frame bar: [high, low, close, atr, adx, atr_pct], at index ts  *)
(***************************************************************************)
\* signals["fwd_return"] = close.shift(-horizon) / close - 1 (nan on the
\* trailing rows, which dropna removes)
HasFwd(signals, i, horizon) == (i + horizon) \in 1..Len(signals)
FwdReturn(signals, i, horizon) ==
    Rat(signals[i + horizon].close - signals[i].close, signals[i].close)

\* a variant of the row filter that does not look at the side
SelectedAnySide(signals, i, threshold, horizon) ==
    /\ signals[i].score >= threshold
    /\ HasFwd(signals, i, horizon)

\* a variant of the row filter that keeps the scores up to the threshold
SelectedUpToThreshold(signals, i, threshold, horizon) ==
    /\ signals[i].side \in {"BUY", "SELL"}
    /\ signals[i].score <= threshold
    /\ HasFwd(signals, i, horizon)

Selected(signals, i, threshold, horizon) ==
    /\ signals[i].side \in {"BUY", "SELL"}
    /\ signals[i].score >= threshold
    /\ HasFwd(signals, i, horizon)

\* the positions of the rows of active, in the order of signals
ActiveIdx(signals, threshold, horizon) ==
    SelectSeq([i \in 1..Len(signals) |-> i],
              LAMBDA i : Selected(signals, i, threshold, horizon))

Direction(side) == IF side = "BUY" THEN 1 ELSE -1

\* path = base_frame.iloc[start_pos+1 : end_pos+1], end_pos = min(start_pos + horizon, len - 1)
PathOf(frame, ts, horizon) == SubSeq(frame, ts + 1, Min(ts + horizon, Len(frame)))

LevelsUsable(lv) == Truthy(lv.sl) /\ Truthy(lv.tp)
HitSl(side, bar, lv) == IF side = "BUY" THEN bar.low <= lv.sl ELSE bar.high >= lv.sl
HitTp(side, bar, lv) == IF side = "BUY" THEN bar.high >= lv.tp ELSE bar.low <= lv.tp

\* a variant of the scan that tests the stop-loss first on each bar
RECURSIVE FirstHitStopFirst(_, _, _)
FirstHitStopFirst(side, path, lv) ==
    IF path = <<>> THEN "NONE"
    ELSE IF HitSl(side, Head(path), lv) \/ HitTp(side, Head(path), lv)
    THEN (IF HitSl(side, Head(path), lv) THEN "SL" ELSE "TP")
    ELSE FirstHitStopFirst(side, Tail(path), lv)

\* the first bar of the path on which either level is touched; TP is tested first
RECURSIVE FirstHit(_, _, _)
FirstHit(side, path, lv) ==
    IF path = <<>> THEN "NONE"
    ELSE IF HitSl(side, Head(path), lv) \/ HitTp(side, Head(path), lv)
    THEN (IF HitTp(side, Head(path), lv) THEN "TP" ELSE "SL")
    ELSE FirstHit(side, Tail(path), lv)

LevelsOf(frame, row) ==
    adaptive_sl_tp(safe_num(frame[row.ts].close), safe_num(frame[row.ts].atr), row.side,
                   safe_num(frame[row.ts].adx), safe_num(frame[row.ts].atr_pct))

\* Without two usable levels hit_sl and hit_tp are empty series, and the scan
\* "hit_sl.iloc[j]" over a non-empty path raises IndexError.
ScanRaises(frame, row, horizon) ==
    /\ ~LevelsUsable(LevelsOf(frame, row))
    /\ Len(PathOf(frame, row.ts, horizon)) > 0

EventReturn(frame, row, horizon) ==
    LET price_i == safe_num(frame[row.ts].close)
        lv      == LevelsOf(frame, row)
        path    == PathOf(frame, row.ts, horizon)
        hit     == IF LevelsUsable(lv) THEN FirstHit(row.side, path, lv) ELSE "NONE"
        exit    == IF hit = "TP" THEN lv.tp
                   ELSE IF hit = "SL" THEN lv.sl
                   ELSE IF Len(path) > 0 THEN path[Len(path)].close ELSE price_i
    IN  IF row.side = "BUY" THEN Rat(exit - price_i, price_i)
        ELSE Rat(price_i - exit, price_i)

\* Mutant of CostReturn: the cost of one leg only.
CostReturnOneWay(commission_bps, slippage_bps) == Rat(commission_bps + slippage_bps, 10000)

\* cost_return = (commission_bps * 2 + slippage_bps * 2) / 10000
CostReturn(commission_bps, slippage_bps) == Rat(commission_bps * 2 + slippage_bps * 2, 10000)

\* What backtest_signals raises, if anything, before it builds the report.
BacktestError(signals, frame, prm) ==
    LET idx == ActiveIdx(signals, prm.threshold, prm.horizon)
    IN  IF prm.mode # "atr_tp_sl" THEN "none"
        ELSE IF \E k \in 1..Len(idx) : ScanRaises(frame, signals[idx[k]], prm.horizon)
        THEN "IndexError"
        ELSE "none"

\* The frame active, without its running sum.
ActiveRows(signals, frame, prm) ==
    LET idx  == ActiveIdx(signals, prm.threshold, prm.horizon)
        cost == CostReturn(prm.commission_bps, prm.slippage_bps)
    IN  [ k \in 1..Len(idx) |->
            LET row   == signals[idx[k]]
                fwd   == FwdReturn(signals, idx[k], prm.horizon)
                gross == IF prm.mode = "atr_tp_sl"
                         THEN EventReturn(frame, row, prm.horizon)
                         ELSE RatScale(Direction(row.side), fwd)
                net   == RatSub(gross, cost)
            IN  [ ts |-> row.ts, side |-> row.side, score |-> row.score,
                  direction |-> Direction(row.side), fwd_return |-> fwd,
                  gross_return |-> gross, cost_return |-> cost, net_return |-> net,
                  gross_value |-> RatScale(prm.position_size, gross),
                  net_value |-> RatScale(prm.position_size, net),
                  atr_pct |-> row.atr_pct, adx |-> row.adx ] ]

NetReturns(rows) == [k \in 1..Len(rows) |-> rows[k].net_return]
NetValues(rows) == [k \in 1..Len(rows) |-> rows[k].net_value]

Active(signals, frame, prm) ==
    LET rows == ActiveRows(signals, frame, prm)
        cum  == CumSum(NetValues(rows), Rat0)
    IN  [ k \in 1..Len(rows) |->
            [ ts |-> rows[k].ts, side |-> rows[k].side, score |-> rows[k].score,
              direction |-> rows[k].direction, fwd_return |-> rows[k].fwd_return,
              gross_return |-> rows[k].gross_return, cost_return |-> rows[k].cost_return,
              net_return |-> rows[k].net_return, gross_value |-> rows[k].gross_value,
              net_value |-> rows[k].net_value, atr_pct |-> rows[k].atr_pct,
              adx |-> rows[k].adx, cum_net_value |-> cum[k] ] ]

(***************************************************************************)
(* backtest_signals: the statistics of the report                          *)
(***************************************************************************)
\* "x > 1e-12" and "x > 1e-8" for a fraction n/d: every fraction of the model
\* with n >= 1 lies far above both epsilons, so the test is n >= 1.
AboveEps(x) == x[1] >= 1

Mean(xs) == RatDiv(RatSum(xs), <<Len(xs), 1>>)
Positives(xs) == SelectSeq(xs, RatPos)
Negatives(xs) == SelectSeq(xs, RatNegative)

\* np.std(xs) > 1e-8: the values are not all equal
StdAboveEps(xs) == \E i, j \in 1..Len(xs) : xs[i] # xs[j]

\* hit_rate = (net_value > 0).mean()
HitRate(rows) == Rat(Len(Positives(NetValues(rows))), Len(rows))

\* Mutant of HitRateOrZero: the mean of an empty column, which is nan.
HitRateUnguarded(rows) == RatDiv(<<Len(Positives(NetValues(rows))), 1>>, <<Len(rows), 1>>)

HitRateOrZero(rows) == IF Len(rows) > 0 THEN HitRate(rows) ELSE Rat0

\* equity = (1 + net_return).cumprod(); running_max = equity.cummax();
\* drawdown = (equity - running_max) / running_max; max_drawdown = drawdown.min()
Equity(nets) == CumProd([k \in 1..Len(nets) |-> RatAdd(Rat1, nets[k])], Rat1)
Drawdown(nets) ==
    LET equity      == Equity(nets)
        running_max == CumMax(equity)
    IN  [k \in 1..Len(nets) |-> RatDiv(RatSub(equity[k], running_max[k]), running_max[k])]
MaxDrawdown(nets) == MinSkipNaN(Drawdown(nets), RatNaN)

\* profit_factor stays at its default 0.0 unless losses_value < 0
ProfitFactor(rows) ==
    LET wins_value   == RatSum(Positives(NetValues(rows)))
        losses_value == RatSum(Negatives(NetValues(rows)))
    IN  IF RatNegative(losses_value)
        THEN (IF AboveEps(RatAbs(losses_value))
              THEN RatDiv(RatAbs(wins_value), RatAbs(losses_value))
              ELSE RatInf)
        ELSE Rat0

AvgWin(nets) == IF Len(Positives(nets)) > 0 THEN Mean(Positives(nets)) ELSE Rat0
AvgLoss(nets) == IF Len(Negatives(nets)) > 0 THEN Mean(Negatives(nets)) ELSE Rat0

WinLossRatio(nets) ==
    IF AboveEps(RatNeg(AvgLoss(nets)))
    THEN (IF AvgWin(nets) # Rat0 THEN RatAbs(RatDiv(AvgWin(nets), AvgLoss(nets))) ELSE Rat0)
    ELSE Rat0

\* sharpe and sortino need a square root: the model keeps their sign
SharpeSign(nets) == IF StdAboveEps(nets) THEN Sign(Mean(nets)[1]) ELSE 0
SortinoSign(nets) ==
    IF Len(Negatives(nets)) > 0 /\ StdAboveEps(Negatives(nets))
    THEN Sign(Mean(nets)[1]) ELSE 0

RECURSIVE Streaks(_, _, _, _, _)
Streaks(vals, cur_win, cur_loss, longest_win, longest_loss) ==
    IF vals = <<>> THEN [longest_win |-> longest_win, longest_loss |-> longest_loss]
    ELSE IF RatPos(Head(vals))
    THEN Streaks(Tail(vals), cur_win + 1, 0, Max(longest_win, cur_win + 1), longest_loss)
    ELSE IF RatNegative(Head(vals))
    THEN Streaks(Tail(vals), 0, cur_loss + 1, longest_win, Max(longest_loss, cur_loss + 1))
    ELSE Streaks(Tail(vals), 0, 0, longest_win, longest_loss)

empty_side_summary ==
    [trades |-> 0, net_return_sum |-> Rat0, hit_rate |-> Rat0, avg_return |-> Rat0,
     avg_score |-> Rat0]

build_side_summary(rows, side) ==
    LET subset == SelectSeq(rows, LAMBDA r : r.side = side)
    IN  IF subset = <<>> THEN empty_side_summary
        ELSE [trades |-> Len(subset),
              net_return_sum |-> RatSum(NetReturns(subset)),
              hit_rate |-> HitRate(subset),
              avg_return |-> Mean(NetReturns(subset)),
              avg_score |-> Mean([k \in 1..Len(subset) |-> <<subset[k].score, 1>>])]

\* pd.cut(atr_pct, [0, 0.01, 0.02, inf], include_lowest=True); nan -> "unknown"
VolRegime(atr_pct) ==
    IF atr_pct = NaN \/ atr_pct < 0 THEN "unknown"
    ELSE IF atr_pct <= 100 THEN "low"
    ELSE IF atr_pct <= 200 THEN "medium" ELSE "high"
TrendRegime(adx) == IF adx # NaN /\ adx >= 20 THEN "strong" ELSE "weak"

RegimeKeys ==
    << <<"low", "strong">>, <<"low", "weak">>, <<"medium", "strong">>, <<"medium", "weak">>,
       <<"high", "strong">>, <<"high", "weak">>, <<"unknown", "strong">>, <<"unknown", "weak">> >>

RECURSIVE RegimeMetrics(_, _)
RegimeMetrics(rows, keys) ==
    IF keys = <<>> THEN <<>>
    ELSE LET grp == SelectSeq(rows, LAMBDA r : <<VolRegime(r.atr_pct), TrendRegime(r.adx)>> = Head(keys))
         IN  (IF grp = <<>> THEN <<>>
              ELSE << [vol_regime |-> Head(keys)[1], trend_regime |-> Head(keys)[2],
                       trades |-> Len(grp), net_return_sum |-> RatSum(NetReturns(grp)),
                       hit_rate |-> HitRate(grp)] >>)
             \o RegimeMetrics(rows, Tail(keys))

\* pd.cut(score, arange(0.3, 1.01, 0.1), include_lowest=True): bucket 1 is
\* [0.3, 0.4], bucket k is (0.2 + k/10, 0.3 + k/10]; 0 stands for "unknown"
ScoreBucket(score) ==
    IF score < 720 \/ score > 2400 THEN 0
    ELSE IF score = 720 THEN 1
    ELSE (score - 720 + 239) \div 240

RECURSIVE ScoreBuckets(_, _)
ScoreBuckets(rows, b) ==
    IF b > 7 THEN <<>>
    ELSE LET key == IF b = 7 THEN 0 ELSE b + 1
             grp == SelectSeq(rows, LAMBDA r : ScoreBucket(r.score) = key)
         IN  (IF grp = <<>> THEN <<>>
              ELSE << [bucket |-> key, trades |-> Len(grp),
                       net_return_avg |-> Mean(NetReturns(grp)),
                       hit_rate |-> HitRate(grp)] >>)
             \o ScoreBuckets(rows, b + 1)

\* The bars of one history lie within one calendar day: one weekday group.
WeekdayBreakdown(rows) ==
    IF rows = <<>> THEN <<>>
    ELSE << [trades |-> Len(rows), net_return_sum |-> RatSum(NetReturns(rows)),
             hit_rate |-> HitRate(rows), avg_return |-> Mean(NetReturns(rows))] >>

\* The resampled intervals are not modelled, only whether the block is filled.
Bootstrap(rows, bootstrap) ==
    IF bootstrap # 0 /\ Len(rows) # 0 THEN << [samples |-> bootstrap] >> ELSE <<>>

Report(rows, prm) ==
    LET trades == Len(rows)
        nets   == NetReturns(rows)
    IN  [ trades           |-> trades,
          threshold        |-> prm.threshold,
          horizon          |-> prm.horizon,
          cost_return      |-> CostReturn(prm.commission_bps, prm.slippage_bps),
          gross_value_sum  |-> IF trades > 0 THEN RatSum([k \in 1..trades |-> rows[k].gross_value]) ELSE Rat0,
          net_value_sum    |-> IF trades > 0 THEN RatSum(NetValues(rows)) ELSE Rat0,
          gross_return_sum |-> IF trades > 0 THEN RatSum([k \in 1..trades |-> rows[k].gross_return]) ELSE Rat0,
          net_return_sum   |-> IF trades > 0 THEN RatSum(nets) ELSE Rat0,
          hit_rate         |-> HitRateOrZero(rows),
          sharpe_sign      |-> IF trades > 0 THEN SharpeSign(nets) ELSE 0,
          sortino_sign     |-> IF trades > 0 THEN SortinoSign(nets) ELSE 0,
          avg_win          |-> IF trades > 0 THEN AvgWin(nets) ELSE Rat0,
          avg_loss         |-> IF trades > 0 THEN AvgLoss(nets) ELSE Rat0,
          expectancy       |-> IF trades > 0 THEN Mean(nets) ELSE Rat0,
          max_drawdown     |-> IF trades > 0 THEN MaxDrawdown(nets) ELSE Rat0,
          profit_factor    |-> IF trades > 0 THEN ProfitFactor(rows) ELSE Rat0,
          win_loss_ratio   |-> IF trades > 0 THEN WinLossRatio(nets) ELSE Rat0,
          side_breakdown   |-> IF trades > 0
                               THEN [buy |-> build_side_summary(rows, "BUY"),
                                     sell |-> build_side_summary(rows, "SELL")]
                               ELSE [buy |-> empty_side_summary, sell |-> empty_side_summary],
          weekday_breakdown |-> IF trades > 0 THEN WeekdayBreakdown(rows) ELSE <<>>,
          streaks          |-> IF trades > 0
                               THEN Streaks(NetValues(rows), 0, 0, 0, 0)
                               ELSE [longest_win |-> 0, longest_loss |-> 0],
          history          |-> [k \in 1..trades |-> rows[k].ts],
          regime_metrics   |-> IF trades > 0 THEN RegimeMetrics(rows, RegimeKeys) ELSE <<>>,
          score_buckets    |-> IF trades > 0 THEN ScoreBuckets(rows, 0) ELSE <<>>,
          equity_curve     |-> [k \in 1..trades |-> rows[k].cum_net_value],
          exposure_bars    |-> trades * prm.horizon,
          bootstrap        |-> Bootstrap(rows, prm.bootstrap) ]

NoReport == Report(<<>>, [threshold |-> 0, horizon |-> 0, commission_bps |-> 0,
                          slippage_bps |-> 0, bootstrap |-> 0])

(***************************************************************************)
(* Inputs of the backtest specification.  signals and base_frame come from *)
(* the same cached fetch, so row i of signals is bar i of base_frame.      *)
(***************************************************************************)
NBars == 3

\* (side, score) of a signals row: 0.55, 0.7, 0.7 and 0.3
SignalKinds == { <<"HOLD", 1320>>, <<"BUY", 1680>>, <<"SELL", 1680>>, <<"SELL", 720>> }

\* atr_pct = (atr / close).clip(lower=0), in units of 1e-4
AtrPct(atr, close) == Max(0, (atr * 10000) \div close)

\* A bar whose high and low stay next to its close, or reach far beyond any
\* level on the side(s) named by wick.
Bar(close, wick, atr, adx) ==
    [ high |-> IF wick \in {"up", "both"} THEN 2000 ELSE close + 1,
      low  |-> IF wick \in {"down", "both"} THEN 1 ELSE close - 1,
      close |-> close, atr |-> atr, adx |-> adx, atr_pct |-> AtrPct(atr, close) ]

SignalRow(i, bar, kind) ==
    [ ts |-> i, close |-> bar.close, atr |-> bar.atr, adx |-> bar.adx,
      atr_pct |-> bar.atr_pct, side |-> kind[1], score |-> kind[2] ]

\* (atr, adx) of a history: the zero ATR of the indicator's warm-up bars, a
\* calm market, and an ATR of 40% of price
AtrProfiles == { <<0, 0>>, <<10, 25>>, <<200, 25>> }

\* the (close, wick, kind) choices of one bar in each family of histories
HorizonBars(closes, kinds) == { <<c, "none", k>> : c \in closes, k \in kinds }
EventBars(closes, wicks) ==
    { <<c, w, <<"HOLD", 1320>> >> : c \in closes, w \in wicks }
    \cup { <<c, "none", k>> : c \in closes, k \in { <<"BUY", 1680>>, <<"SELL", 1680>> } }

Histories(choices) ==
    { [ i \in 1..NBars |-> h[i] ] : h \in [1..NBars -> choices] }

FrameOf(h, atr, adx) == [ i \in 1..Len(h) |-> Bar(h[i][1], h[i][2], atr, adx) ]
SignalsOf(h, atr, adx) ==
    [ i \in 1..Len(h) |-> SignalRow(i, Bar(h[i][1], h[i][2], atr, adx), h[i][3]) ]

Params(th, hz, c, sl, ps, mode, boot) ==
    [ threshold |-> th, horizon |-> hz, commission_bps |-> c, slippage_bps |-> sl,
      position_size |-> ps, mode |-> mode, bootstrap |-> boot ]

InitBacktest ==
    /\ IdleService
    /\ IdleSignal
    /\ IdleOptimize
    /\ IdleFetch
    /\ bt_pc = "ready"
    /\ bt_active = <<>>
    /\ bt_report = NoReport
    /\ \/ \E h \in Histories(HorizonBars({400, 500}, SignalKinds)),
             th \in {1200, 1800}, hz \in {1, 2}, boot \in {0, 50} :
            /\ bt_signals = SignalsOf(h, 10, 25)
            /\ bt_frame = FrameOf(h, 10, 25)
            /\ bt_params = Params(th, hz, 4, 1, 1, "horizon", boot)
       \/ \E h \in Histories(HorizonBars({400, 500, 1000}, SignalKinds \ { <<"SELL", 720>> })), hz \in {1, 2} :
            /\ bt_signals = SignalsOf(h, 10, 25)
            /\ bt_frame = FrameOf(h, 10, 25)
            /\ bt_params = Params(1200, hz, 0, 0, 2, "horizon", 0)
       \/ \E h \in Histories(EventBars({500}, {"none", "up", "down", "both"})),
             th \in {1200, 1800}, hz \in {1, 2}, boot \in {0, 50}, adx \in {10, 25} :
            /\ bt_signals = SignalsOf(h, 10, adx)
            /\ bt_frame = FrameOf(h, 10, adx)
            /\ bt_params = Params(th, hz, 4, 1, 1, "atr_tp_sl", boot)
       \/ \E p \in AtrProfiles, hz \in {1, 2} :
          \E h \in Histories(EventBars({500, 505}, {"none", "up", "down"})) :
            /\ bt_signals = SignalsOf(h, p[1], p[2])
            /\ bt_frame = FrameOf(h, p[1], p[2])
            /\ bt_params = Params(1200, hz, 0, 0, 1, "atr_tp_sl", 0)

\* backtest_signals(symbol, ..., signals, mode, bootstrap), the fetch of
\* base_frame having succeeded
BacktestSignals ==
    /\ bt_pc = "ready"
    /\ IF BacktestError(bt_signals, bt_frame, bt_params) # "none"
       THEN /\ bt_pc' = "raised"
            /\ UNCHANGED <<bt_active, bt_report>>
       ELSE /\ bt_pc' = "done"
            /\ bt_active' = Active(bt_signals, bt_frame, bt_params)
            /\ bt_report' = Report(Active(bt_signals, bt_frame, bt_params), bt_params)
    /\ UNCHANGED <<bt_signals, bt_frame, bt_params>>
    /\ UNCHANGED btOthers

NextBacktest == BacktestSignals

SpecBacktest == InitBacktest /\ [][NextBacktest]_vars

(***************************************************************************)
(* optimize_params                                                         *)
(***************************************************************************)
DefaultFolds == 3
RowsPerFoldForWalkforward == 50
MinFoldRows == 100

\* isinstance(idx, pd.DatetimeIndex): prepare_frame indexes every frame by open_time
IsDatetimeIndex == TRUE

\* cut_points = np.linspace(0, len(idx), folds + 1, dtype=int)
CutPoint(n, folds, i) == (i * n) \div folds

\* a variant whose folds end on the first row of the next fold
FoldRangesSharedRow(args, n) ==
    IF args.walkforward /\ IsDatetimeIndex /\ n > args.folds * RowsPerFoldForWalkforward
    THEN [ i \in 1..args.folds |->
             <<CutPoint(n, args.folds, i - 1) + 1,
               Min(CutPoint(n, args.folds, i) + 1, n)>> ]
    ELSE <<>>

\* the folds as (first, last) positions, or <<>> for "fold_ranges = None"
FoldRanges(args, n) ==
    IF args.walkforward /\ IsDatetimeIndex /\ n > args.folds * RowsPerFoldForWalkforward
    THEN [ i \in 1..args.folds |->
             <<CutPoint(n, args.folds, i - 1) + 1, CutPoint(n, args.folds, i)>> ]
    ELSE <<>>

\* backtest_signals(...): its exception, or its report
backtest_signals(signals, frame, prm) ==
    IF BacktestError(signals, frame, prm) # "none"
    THEN [error |-> BacktestError(signals, frame, prm)]
    ELSE [error |-> "none", report |-> Report(Active(signals, frame, prm), prm)]

\* eval_candidate(th, hz, sig_df)
eval_candidate(args, th, hz, sig_df, frame) ==
    backtest_signals(sig_df, frame,
        Params(th, hz, args.commission_bps, args.slippage_bps, args.position_size,
               args.mode, 0))

\* one fold's contribution to the aggregates of a cell
AddFold(acc, r) ==
    IF r.error # "none" THEN [acc EXCEPT !.error = r.error]
    ELSE [ error |-> "none",
           agg_trades |-> acc.agg_trades + r.report.trades,
           agg_net |-> RatAdd(acc.agg_net, r.report.net_return_sum),
           hits |-> Append(acc.hits, r.report.hit_rate),
           pfs |-> Append(acc.pfs, r.report.profit_factor) ]

\* the body of "for (s_idx, e_idx) in fold_ranges"; an exception ends the loop
FoldStep(args, th, hz, signals, frame, range, acc) ==
    IF acc.error # "none" \/ range[2] - range[1] + 1 < MinFoldRows THEN acc
    ELSE AddFold(acc, eval_candidate(args, th, hz, SubSeq(signals, range[1], range[2]), frame))

RECURSIVE EvalFolds(_, _, _, _, _, _, _)
EvalFolds(args, th, hz, signals, frame, ranges, acc) ==
    IF ranges = <<>> THEN acc
    ELSE EvalFolds(args, th, hz, signals, frame, Tail(ranges),
                   FoldStep(args, th, hz, signals, frame, Head(ranges), acc))

\* trades, hit, pf and net of a cell evaluated fold by fold
FoldCandidate(th, hz, a) ==
    IF a.error # "none" THEN [error |-> a.error]
    ELSE [ error |-> "none",
           cand |-> [ threshold |-> th, horizon |-> hz,
                      trades |-> a.agg_trades,
                      hit_rate |-> IF a.hits # <<>> THEN Mean(a.hits) ELSE Rat0,
                      profit_factor |-> IF a.pfs # <<>> THEN Mean(a.pfs) ELSE Rat0,
                      net_return_sum |-> a.agg_net ] ]

\* trades, hit, pf and net of a cell evaluated over the whole history
WholeCandidate(th, hz, r) ==
    IF r.error # "none" THEN [error |-> r.error]
    ELSE [ error |-> "none",
           cand |-> [ threshold |-> th, horizon |-> hz,
                      trades |-> r.report.trades,
                      hit_rate |-> r.report.hit_rate,
                      profit_factor |-> r.report.profit_factor,
                      net_return_sum |-> r.report.net_return_sum ] ]

\* one grid cell: the candidate, or the exception of a backtest_signals call
EvalCell(args, th, hz, signals, frame) ==
    IF FoldRanges(args, Len(signals)) # <<>>
    THEN FoldCandidate(th, hz,
             EvalFolds(args, th, hz, signals, frame, FoldRanges(args, Len(signals)),
                 [error |-> "none", agg_trades |-> 0, agg_net |-> Rat0,
                  hits |-> <<>>, pfs |-> <<>>]))
    ELSE WholeCandidate(th, hz, eval_candidate(args, th, hz, signals, frame))

\* "for hz in horizons: for th in thresholds": the cells as <<hz, th>>
Cells(args) ==
    LET T == Len(args.thresholds)
    IN  [ k \in 1..(Len(args.horizons) * T) |->
            <<args.horizons[((k - 1) \div T) + 1], args.thresholds[((k - 1) % T) + 1]>> ]

\* pf >= 1.3
PfAtLeastMin(pf) == pf = RatInf \/ (IsFinite(pf) /\ RatLeq(<<13, 10>>, pf))

\* gap = abs(hit - target_hit)
Gap(args, cand) == RatAbs(RatSub(cand.hit_rate, args.target_hit))

Closer(args, st, cand) ==
    \/ st.closest = <<>>
    \/ RatLess(Gap(args, cand), st.best_hit_gap)
    \/ /\ Gap(args, cand) = st.best_hit_gap
       /\ RatLess(st.closest[1].net_return_sum, cand.net_return_sum)

\* a variant that keeps the first cell meeting the three conditions
BetterKeepsFirst(args, st, cand) ==
    /\ RatLeq(args.target_hit, cand.hit_rate)
    /\ cand.trades >= args.min_trades
    /\ PfAtLeastMin(cand.profit_factor)
    /\ st.best = <<>>

Better(args, st, cand) ==
    /\ RatLeq(args.target_hit, cand.hit_rate)
    /\ cand.trades >= args.min_trades
    /\ PfAtLeastMin(cand.profit_factor)
    /\ \/ st.best = <<>>
       \/ RatLess(st.best[1].net_return_sum, cand.net_return_sum)

\* the tracking of closest and best for the cell result c; best and closest
\* are <<>> (None) or <<candidate>>; cands lists the cand dicts built so far
Track(args, st, c) ==
    IF c.error # "none" THEN [st EXCEPT !.error = c.error]
    ELSE [ error |-> "none",
           fold_ranges |-> st.fold_ranges,
           cands |-> Append(st.cands, c.cand),
           best |-> IF Better(args, st, c.cand) THEN <<c.cand>> ELSE st.best,
           closest |-> IF Closer(args, st, c.cand) THEN <<c.cand>> ELSE st.closest,
           best_hit_gap |-> IF Closer(args, st, c.cand) THEN Gap(args, c.cand)
                            ELSE st.best_hit_gap ]

\* the body of the loop over the cells; an exception ends the loop
CellStep(args, signals, frame, cell, st) ==
    IF st.error # "none" THEN st
    ELSE Track(args, st, EvalCell(args, cell[2], cell[1], signals, frame))

RECURSIVE OptLoop(_, _, _, _, _)
OptLoop(args, signals, frame, cells, st) ==
    IF cells = <<>> THEN st
    ELSE OptLoop(args, signals, frame, Tail(cells),
                 CellStep(args, signals, frame, Head(cells), st))

\* "return best or (closest or {placeholder})" for the loop's final state st:
\* [error, value]; error is "none" when a candidate is returned
ReturnOf(args, st) ==
    IF st.error # "none" THEN [error |-> st.error, value |-> <<>>]
    ELSE IF st.best # <<>> THEN [error |-> "none", value |-> st.best]
    ELSE IF st.closest # <<>> THEN [error |-> "none", value |-> st.closest]
    ELSE IF args.thresholds = <<>> \/ args.horizons = <<>>
    THEN [error |-> "IndexError", value |-> <<>>]
    ELSE [ error |-> "none",
           value |-> << [ threshold |-> args.thresholds[1], horizon |-> args.horizons[1],
                          trades |-> 0, hit_rate |-> Rat0, profit_factor |-> Rat0,
                          net_return_sum |-> Rat0 ] >> ]

\* optimize_params: the loop's final best and closest, and what is returned
LoopResult(args, st) ==
    [ locals |-> [error |-> st.error, best |-> st.best, closest |-> st.closest,
                  cands |-> st.cands, fold_ranges |-> st.fold_ranges],
      return |-> ReturnOf(args, st) ]

optimize_params(args, signals, frame) ==
    LoopResult(args,
        OptLoop(args, signals, frame, Cells(args),
            [error |-> "none", best |-> <<>>, closest |-> <<>>, best_hit_gap |-> Rat1,
             cands |-> <<>>, fold_ranges |-> FoldRanges(args, Len(signals))]))

(***************************************************************************)
(* Inputs of the optimizer specification: histories of 50 to 300 bars that *)
(* are flat and HOLD except for a four-bar pattern at the start of each    *)
(* third of the history.                                                   *)
(***************************************************************************)
\* ATR(window=14) is 0 on the first 13 bars of a frame
AtrWarmUp == 13

FlatBar == <<500, "none", <<"HOLD", 1320>> >>
PatFlat == <<FlatBar, FlatBar, FlatBar, FlatBar>>
PatWin == << <<400, "none", <<"BUY", 1680>> >>, FlatBar, FlatBar, FlatBar >>
PatWinLoss ==
    << <<400, "none", <<"BUY", 2040>> >>, <<1000, "none", <<"BUY", 1680>> >>,
       <<400, "none", <<"HOLD", 1320>> >>, FlatBar >>

\* a strong win, a strong loss and a weaker win
PatTwoTier ==
    << <<400, "none", <<"BUY", 2040>> >>, <<1000, "none", <<"BUY", 2040>> >>,
       <<400, "none", <<"BUY", 1680>> >>, FlatBar >>

PatternTriples ==
    { <<PatWinLoss, PatWinLoss, PatWinLoss>>, <<PatWinLoss, PatWin, PatFlat>>,
      <<PatTwoTier, PatTwoTier, PatTwoTier>>,
      <<PatFlat, PatWinLoss, PatWin>>, <<PatWin, PatWin, PatWin>>,
      <<PatFlat, PatFlat, PatFlat>> }

OptLens == {50, 150, 151, 299, 300}

\* the (close, wick, kind) of bar i of a history of n bars
OptChoice(n, pats, i) ==
    LET k == CHOOSE j \in 1..3 : CutPoint(n, 3, j - 1) < i /\ i <= CutPoint(n, 3, j)
        off == i - CutPoint(n, 3, k - 1)
    IN  IF off <= Len(pats[k]) THEN pats[k][off] ELSE FlatBar

OptBar(n, pats, warm, i) ==
    LET c == OptChoice(n, pats, i)
    IN  Bar(c[1], c[2], IF warm /\ i <= AtrWarmUp THEN 0 ELSE 40, 25)

OptFrame(n, pats, warm) == [ i \in 1..n |-> OptBar(n, pats, warm, i) ]
OptSignals(n, pats, warm) ==
    [ i \in 1..n |-> SignalRow(i, OptBar(n, pats, warm, i), OptChoice(n, pats, i)[3]) ]

InitOptimize ==
    /\ IdleService
    /\ IdleSignal
    /\ IdleBacktest
    /\ IdleFetch
    /\ opt_pc = "ready"
    /\ opt_result = <<>>
    /\ opt_locals = [error |-> "none", best |-> <<>>, closest |-> <<>>, cands |-> <<>>,
                    fold_ranges |-> <<>>]
    /\ \E n \in OptLens, pats \in PatternTriples, warm \in BOOLEAN :
          /\ opt_signals = OptSignals(n, pats, warm)
          /\ opt_frame = OptFrame(n, pats, warm)
    /\ \E ths \in { <<>>, <<1200>>, <<1800, 1200>> }, hzs \in { <<>>, <<1>>, <<2, 1>> },
          target \in { <<1, 2>>, <<16, 25>> }, mt \in {1, 20},
          mode \in {"horizon", "atr_tp_sl"}, wf \in BOOLEAN :
          opt_args = [ thresholds |-> ths, horizons |-> hzs, commission_bps |-> 0,
                       slippage_bps |-> 0, position_size |-> 1, target_hit |-> target,
                       min_trades |-> mt, mode |-> mode, walkforward |-> wf,
                       folds |-> DefaultFolds ]

\* optimize_params(symbol, thresholds, horizons, ...), the fetches having succeeded
OptimizeParams ==
    /\ opt_pc = "ready"
    /\ \E r \in {optimize_params(opt_args, opt_signals, opt_frame)} :
          /\ opt_pc' = IF r.return.error = "none" THEN "returned" ELSE "raised"
          /\ opt_result' = r.return.value
          /\ opt_locals' = r.locals
    /\ UNCHANGED <<opt_signals, opt_frame, opt_args>>
    /\ UNCHANGED optOthers

NextOptimize == OptimizeParams

SpecOptimize == InitOptimize /\ [][NextOptimize]_vars

(***************************************************************************)
(* fetch_ohlcv for one (symbol, interval, limit) key.  Time is counted in  *)
(* units of 0.2 s, the base of the backoff.                                *)
(***************************************************************************)
OHLCV_TTL_SEC == 20
UnitsPerSecond == 5
MaxSources == 2
MaxAttempts == 3
MinRows == 50

\* _cache_get: the cached frame if it is fresh and not empty, else None (<<>>)
cache_get(cache, now) ==
    IF cache # <<>> /\ (now - cache[1].ts) <= OHLCV_TTL_SEC * UnitsPerSecond
                    /\ cache[1].rows > 0
    THEN cache ELSE <<>>

\* _cache_put
cache_put(now, rows) == << [ts |-> now, rows |-> rows] >>

\* Mutant of Backoff: the same pause after every failure.
BackoffConstant(attempt) == 1

\* time.sleep(0.2 * (2 ** attempt))
Backoff(attempt) == 2 ^ attempt

\* What one attempt can end in: the five failures that are recorded in errors,
\* a payload that pd.DataFrame(data, columns=cols) rejects (ValueError), or a
\* frame with the given number of valid rows.
Failures ==
    { [kind |-> k, rows |-> 0] :
        k \in {"request failed", "status", "invalid json", "empty klines"} }
    \cup { [kind |-> "insufficient rows", rows |-> MinRows - 1] }
Outcomes ==
    Failures \cup { [kind |-> "malformed", rows |-> 0] }
             \cup { [kind |-> "frame", rows |-> r] : r \in {MinRows, 300} }

InitFetch ==
    /\ IdleService
    /\ IdleSignal
    /\ IdleBacktest
    /\ IdleOptimize
    /\ fetch_nsources \in 1..MaxSources
    /\ \E c \in { <<>>, cache_put(0, 300), cache_put(0, 0) } : fetch_cache = c
    /\ fetch_now \in { OHLCV_TTL_SEC * UnitsPerSecond, OHLCV_TTL_SEC * UnitsPerSecond + 1 }
    /\ fetch_pc = "start"
    /\ fetch_src = 1
    /\ fetch_attempt = 0
    /\ fetch_errors = <<>>
    /\ fetch_slept = <<>>
    /\ fetch_result = [kind |-> "none"]

\* the cache look-up before the loops
FetchStart ==
    /\ fetch_pc = "start"
    /\ IF cache_get(fetch_cache, fetch_now) # <<>>
       THEN /\ fetch_pc' = "returned"
            /\ fetch_result' = [kind |-> "frame", rows |-> fetch_cache[1].rows, from |-> "cache"]
       ELSE /\ fetch_pc' = "request"
            /\ UNCHANGED fetch_result
    /\ UNCHANGED <<fetch_cache, fetch_now, fetch_nsources, fetch_src, fetch_attempt,
                   fetch_errors, fetch_slept>>
    /\ UNCHANGED fetchOthers

\* one attempt: the request and the checks on its response
FetchAttempt ==
    /\ fetch_pc = "request"
    /\ \E o \in Outcomes :
          IF o \in Failures
          THEN /\ fetch_errors' = Append(fetch_errors,
                                    [src |-> fetch_src, try |-> fetch_attempt + 1, kind |-> o.kind])
               /\ fetch_pc' = "sleep"
               /\ UNCHANGED <<fetch_cache, fetch_result>>
          ELSE IF o.kind = "malformed"
          THEN /\ fetch_pc' = "raised"
               /\ fetch_result' = [kind |-> "ValueError"]
               /\ UNCHANGED <<fetch_cache, fetch_errors>>
          ELSE /\ fetch_cache' = cache_put(fetch_now, o.rows)
               /\ fetch_pc' = "returned"
               /\ fetch_result' = [kind |-> "frame", rows |-> o.rows, from |-> "provider"]
               /\ UNCHANGED fetch_errors
    /\ UNCHANGED <<fetch_now, fetch_nsources, fetch_src, fetch_attempt, fetch_slept>>
    /\ UNCHANGED fetchOthers

\* the pause after a failure, then "continue": the next attempt, the next
\* source, or the HTTPException(502) after the loops
FetchSleep ==
    /\ fetch_pc = "sleep"
    /\ fetch_slept' = Append(fetch_slept, Backoff(fetch_attempt))
    /\ fetch_now' = fetch_now + Backoff(fetch_attempt)
    /\ IF fetch_attempt + 1 < MaxAttempts
       THEN /\ fetch_attempt' = fetch_attempt + 1
            /\ fetch_pc' = "request"
            /\ UNCHANGED <<fetch_src, fetch_result>>
       ELSE IF fetch_src < fetch_nsources
       THEN /\ fetch_src' = fetch_src + 1
            /\ fetch_attempt' = 0
            /\ fetch_pc' = "request"
            /\ UNCHANGED fetch_result
       ELSE /\ fetch_pc' = "raised"
            /\ fetch_result' = [kind |-> "HTTP502"]
            /\ UNCHANGED <<fetch_src, fetch_attempt>>
    /\ UNCHANGED <<fetch_cache, fetch_nsources, fetch_errors>>
    /\ UNCHANGED fetchOthers

NextFetch == FetchStart \/ FetchAttempt \/ FetchSleep

SpecFetch == InitFetch /\ [][NextFetch]_vars

\* Every request ends within the session's timeout and every sleep ends.
FairSpecFetch == SpecFetch /\ WF_vars(NextFetch)

(***************************************************************************)
(* Cache specification: threads of the worker pool calling the get and put *)
(* helpers of _OHLCV_CACHE, _SIG_CACHE and _OPT_CACHE on one key each.     *)
(* A put evaluates time.time() and the payload copy into a tuple and then  *)
(* stores the tuple with one dict item assignment; a get takes the dict's  *)
(* value into the local rec and then unpacks rec.  ts and payload each     *)
(* carry the identity <<thread, call number>> of the put that made them.   *)
(***************************************************************************)
OpsPerThread == 2

NoWrite == <<0, 0>>

Entry(t, n) == [ts |-> <<t, n>>, payload |-> <<t, n>>]

\* a variant storing the fields one at a time: the timestamp lands first
StoreFieldwise(old, rec) ==
    <<[ts |-> rec.ts, payload |-> IF old = <<>> THEN NoWrite ELSE old[1].payload]>>

\* _CACHE[key] = (ts, payload): the dict slot is rebound to the new tuple
Store(old, rec) == <<rec>>

InitCache ==
    /\ IdleCore
    /\ IdleExt
    /\ IdleCompute
    /\ IdleRequest
    /\ IdleLevels
    /\ cache_store = [c \in CacheNames |-> <<>>]
    /\ cache_pc = [t \in Threads |-> "idle"]
    /\ cache_on \in [Threads -> CacheNames]
    /\ cache_rec = [t \in Threads |-> <<>>]
    /\ cache_seen = [t \in Threads |-> <<>>]
    /\ cache_ops = [t \in Threads |-> 0]

\* the right-hand side of the assignment in _cache_put, _sig_cache_put and
\* _get_optimizer_suggestion: (time.time(), data.copy()) or (now, best)
CachePutBuild(t) ==
    /\ cache_pc[t] = "idle"
    /\ cache_ops[t] < OpsPerThread
    /\ cache_ops' = [cache_ops EXCEPT ![t] = @ + 1]
    /\ cache_rec' = [cache_rec EXCEPT ![t] = <<Entry(t, cache_ops[t] + 1)>>]
    /\ cache_pc' = [cache_pc EXCEPT ![t] = "put"]
    /\ UNCHANGED <<cache_store, cache_on, cache_seen>>
    /\ UNCHANGED cacheOthers

\* the dict item assignment itself
CachePutStore(t) ==
    /\ cache_pc[t] = "put"
    /\ cache_store' = [cache_store EXCEPT ![cache_on[t]] = Store(@, cache_rec[t][1])]
    /\ cache_pc' = [cache_pc EXCEPT ![t] = "idle"]
    /\ UNCHANGED <<cache_on, cache_rec, cache_seen, cache_ops>>
    /\ UNCHANGED cacheOthers

\* rec = _CACHE.get(key)
CacheGetLookup(t) ==
    /\ cache_pc[t] = "idle"
    /\ cache_ops[t] < OpsPerThread
    /\ cache_ops' = [cache_ops EXCEPT ![t] = @ + 1]
    /\ cache_rec' = [cache_rec EXCEPT ![t] = cache_store[cache_on[t]]]
    /\ cache_pc' = [cache_pc EXCEPT ![t] = "get"]
    /\ UNCHANGED <<cache_store, cache_on, cache_seen>>
    /\ UNCHANGED cacheOthers

\* if not rec: return None; ts, data = rec (rec[0], rec[1] in the optimizer cache)
CacheGetUnpack(t) ==
    /\ cache_pc[t] = "get"
    /\ cache_seen' = [cache_seen EXCEPT ![t] =
            IF cache_rec[t] = <<>> THEN <<>>
            ELSE <<[ts |-> cache_rec[t][1].ts, payload |-> cache_rec[t][1].payload]>>]
    /\ cache_pc' = [cache_pc EXCEPT ![t] = "idle"]
    /\ UNCHANGED <<cache_store, cache_on, cache_rec, cache_ops>>
    /\ UNCHANGED cacheOthers

NextCache ==
    \/ \E t \in Threads : CachePutBuild(t)
    \/ \E t \in Threads : CachePutStore(t)
    \/ \E t \in Threads : CacheGetLookup(t)
    \/ \E t \in Threads : CacheGetUnpack(t)

SpecCache == InitCache /\ [][NextCache]_vars

(***************************************************************************)
(* compute_signal: the side of compute_signal_row against the dynamic      *)
(* threshold, the reported fields and the levels.  Thresholds are in       *)
(* units of 1/2400 like the score (0.05 = 120, 0.02 = 48); the reported    *)
(* score is in hundredths.                                                 *)
(***************************************************************************)
DefaultBaseTh == 1440

\* base_th = 0.6; if isinstance(opt, dict): base_th = float(opt.get("threshold", base_th))
BaseTh(opt) == IF opt = <<>> THEN DefaultBaseTh ELSE opt[1].threshold

\* a variant without the allowance for a healthy trend inside the volatility window
DynThNoAllowance(b, opt) ==
    BaseTh(opt)
    + (IF ~regime_filters(b).adx_ok \/ (safe_num(b.atr_pct) # NaN /\ safe_num(b.atr_pct) < 15)
       THEN 120 ELSE 0)

DynTh(b, opt) ==
    LET atrp == safe_num(b.atr_pct)
        adxv == safe_num(b.adx)
    IN  BaseTh(opt)
        + (IF ~regime_filters(b).adx_ok \/ (atrp # NaN /\ atrp < 15) THEN 120 ELSE 0)
        - (IF (adxv # NaN /\ adxv >= 20) /\ (atrp # NaN /\ 15 <= atrp /\ atrp <= 200)
           THEN 48 ELSE 0)

Downgrade(side, score, dyn_th) ==
    IF side = "BUY" /\ score < dyn_th THEN "HOLD"
    ELSE IF side = "SELL" /\ score < dyn_th + 48 THEN "HOLD"
    ELSE side

\* float(round(score, 2)): the score in hundredths, ties to the even hundredth
RoundScore(score) ==
    LET q == score \div 24
        r == score % 24
    IN  IF r < 12 THEN q ELSE IF r > 12 THEN q + 1 ELSE IF q % 2 = 0 THEN q ELSE q + 1

\* the rows carry close and atr in cents, adx in whole units and atr_pct in
\* units of 1e-4, so safe_num(x, 2) and safe_num(x, 4) only map NaN to None
compute_signal(b, b1, b4, opt) ==
    LET r     == compute_signal_row(b, b1, b4)
        side  == Downgrade(r.side, r.score, DynTh(b, opt))
        f     == regime_filters(b)
        price == safe_num(b.close)
        atr   == safe_num(b.atr)
        atrp  == safe_num(b.atr_pct)
        adx   == safe_num(b.adx)
        lv    == adaptive_sl_tp(price, atr, side, adx, atrp)
    IN  [ side |-> side, score |-> RoundScore(r.score),
          price |-> price, rsi |-> safe_num(b.rsi), atr |-> atr,
          ema_fast |-> safe_num(b.ema_fast), ema_slow |-> safe_num(b.ema_slow),
          atr_pct |-> atrp, adx |-> adx, sl |-> lv.sl, tp |-> lv.tp,
          votes |-> <<directional_vote(b), directional_vote(b1), directional_vote(b4)>>,
          filters |-> f, suggestion |-> opt ]

\* the thresholds _get_optimizer_suggestion hands to optimize_params
SuggestionThresholds == {960, 1200, 1440, 1680, 1920}

Suggestions == {<<>>} \cup { <<[threshold |-> th]>> : th \in SuggestionThresholds }

ComputeRegimes ==
    { [GoodRegime EXCEPT !.adx = a, !.atr_pct = p] :
        a \in {NaN, 11, 12, 19, 20}, p \in {NaN, 4, 14, 15, 200, 201} }

ComputeRows ==
    { [WithRegime(v, g) EXCEPT !.atr = 40] : v \in VoteRows, g \in ComputeRegimes }

InitCompute ==
    /\ IdleCore
    /\ IdleExt
    /\ IdleCache
    /\ IdleRequest
    /\ IdleLevels
    /\ cs_base \in ComputeRows
    /\ cs_h1 \in VoteRows
    /\ cs_h4 \in {UndefRow, BullRow, BearRow}
    /\ cs_opt \in Suggestions
    /\ cs_pc = "ready"
    /\ cs_result = NoResult

ComputeSignal ==
    /\ cs_pc = "ready"
    /\ cs_result' = compute_signal(cs_base, cs_h1, cs_h4, cs_opt)
    /\ cs_pc' = "done"
    /\ UNCHANGED <<cs_base, cs_h1, cs_h4, cs_opt>>
    /\ UNCHANGED csOthers

NextCompute == ComputeSignal

SpecCompute == InitCompute /\ [][NextCompute]_vars

(***************************************************************************)
(* Request specification: GET /signals, GET /predict and POST /predict     *)
(* around compute_signal, the signal cache and the fallback signal, with   *)
(* the application's handler for exceptions that leave an endpoint.        *)
(***************************************************************************)
SIG_TTL_SEC == 60

MaxNow == 100

TickSteps == {30, 31}

\* query parameters are strings; the symbol of a POST body is any JSON value
NonStrSymbols == {"<123>"}

StrSymbols == {"btcusdt", "BTCUSDT", "ETHUSDT"}

IsStr(symbol) == symbol \notin NonStrSymbols

\* symbol.upper()
Upper(symbol) == IF symbol = "btcusdt" THEN "BTCUSDT" ELSE symbol

\* _sig_cache_get at time now, for a string symbol: <<>> (None) or <<data>>
sig_cache_get(cache, now, symbol) ==
    LET rec == cache[Upper(symbol)]
    IN  IF rec = <<>> THEN <<>>
        ELSE IF now - rec[1].ts <= SIG_TTL_SEC THEN <<rec[1].data>> ELSE <<>>

\* _sig_cache_put
sig_cache_put(cache, now, symbol, data) ==
    [cache EXCEPT ![Upper(symbol)] = <<[ts |-> now, data |-> data]>>]

fallback_signal(symbol) ==
    [ symbol |-> Upper(symbol),
      signal |-> [ side |-> "HOLD", score |-> 0, price |-> NaN, rsi |-> NaN, atr |-> NaN,
                   ema_fast |-> NaN, ema_slow |-> NaN, atr_pct |-> NaN, adx |-> NaN,
                   sl |-> NaN, tp |-> NaN, votes |-> <<0, 0, 0>>,
                   filters |-> [adx_ok |-> FALSE, vol_ok |-> FALSE],
                   suggestion |-> <<>> ] ]

\* the last rows mtf_context can deliver to a request
RequestRows ==
    { [WithRegime(v, GoodRegime) EXCEPT !.atr = 40] : v \in {BullRow, BearRow} }

\* how compute_signal ends: a result, an HTTPException (502/503 of the data
\* path) or any other exception; a symbol that is not a string fails in
\* _cache_get with an AttributeError
Endings(symbol) ==
    IF IsStr(symbol)
    THEN { [outcome |-> "ok", result |-> compute_signal(b, b, b, <<>>)] : b \in RequestRows }
         \cup { [outcome |-> o, result |-> NoResult] : o \in {"HTTPException", "Exception"} }
    ELSE { [outcome |-> "Exception", result |-> NoResult] }

Served(payload, stale) == [status |-> 200, ok |-> TRUE, stale |-> stale, data |-> payload]

\* _unhandled_error on a soft path
Unhandled == [status |-> 200, ok |-> FALSE, error |-> "ai-service-internal"]

\* the except branches: the cached signal, else the fallback; symbol.upper()
\* inside _sig_cache_get raises for a symbol that is not a string
Degraded(cache, now, symbol) ==
    IF ~IsStr(symbol) THEN Unhandled
    ELSE LET cached == sig_cache_get(cache, now, symbol)
         IN  IF cached # <<>> THEN Served(cached[1], TRUE)
             ELSE Served(fallback_signal(symbol), TRUE)

\* one request: compute_signal (which stores its result), then the answer
Handle(endpoint, symbol, e) ==
    /\ req_call' = [endpoint |-> endpoint, symbol |-> symbol, outcome |-> e.outcome]
    /\ IF e.outcome = "ok"
       THEN /\ req_cache' = sig_cache_put(req_cache, req_now, symbol,
                                [symbol |-> symbol, signal |-> e.result])
            /\ req_response' = Served([symbol |-> symbol, signal |-> e.result], FALSE)
       ELSE /\ req_cache' = req_cache
            /\ req_response' = Degraded(req_cache, req_now, symbol)
    /\ UNCHANGED req_now
    /\ UNCHANGED reqOthers

InitRequest ==
    /\ IdleCore
    /\ IdleExt
    /\ IdleCache
    /\ IdleCompute
    /\ IdleLevels
    /\ req_cache = [k \in SigKeys |-> <<>>]
    /\ req_now = 0
    /\ req_call = NoCall
    /\ req_response = NoResponse

GetSignals ==
    \E symbol \in StrSymbols : \E e \in Endings(symbol) : Handle("GET /signals", symbol, e)

PredictGet ==
    \E symbol \in StrSymbols : \E e \in Endings(symbol) : Handle("GET /predict", symbol, e)

Predict ==
    \E symbol \in StrSymbols \cup NonStrSymbols :
        \E e \in Endings(symbol) : Handle("POST /predict", symbol, e)

Tick ==
    /\ \E d \in TickSteps :
        /\ req_now + d <= MaxNow
        /\ req_now' = req_now + d
    /\ UNCHANGED <<req_cache, req_call, req_response>>
    /\ UNCHANGED reqOthers

NextRequest == GetSignals \/ PredictGet \/ Predict \/ Tick

SpecRequest == InitRequest /\ [][NextRequest]_vars

(***************************************************************************)
(* Levels specification: adaptive_sl_tp on one argument tuple; price and   *)
(* atr in cents, adx in whole units, atr_pct in units of 1e-4.             *)
(***************************************************************************)
LevelPrices == {NaN, -500, 0, 1, 500}

LevelAtrs == {NaN, -10, 0, 1, 10}

LevelAdxs == {NaN, 0, 19, 20, 25}

LevelAtrPcts == {NaN, 0, 1, 200, 201}

InitLevels ==
    /\ IdleCore
    /\ IdleExt
    /\ IdleCache
    /\ IdleCompute
    /\ IdleRequest
    /\ lv_args \in [price : LevelPrices, atr : LevelAtrs, side : {"BUY", "SELL", "HOLD"},
                    adx : LevelAdxs, atr_pct : LevelAtrPcts]
    /\ lv_pc = "ready"
    /\ lv_out = [sl |-> NaN, tp |-> NaN]

AdaptiveSlTp ==
    /\ lv_pc = "ready"
    /\ lv_out' = adaptive_sl_tp(lv_args.price, lv_args.atr, lv_args.side,
                                lv_args.adx, lv_args.atr_pct)
    /\ lv_pc' = "done"
    /\ UNCHANGED lv_args
    /\ UNCHANGED lvOthers

NextLevels == AdaptiveSlTp

SpecLevels == InitLevels /\ [][NextLevels]_vars

(***************************************************************************)
(* _get_optimizer_suggestion for one symbol, called from the threads of    *)
(* the worker pool.  A caller reads the clock and the cache entry, and     *)
(* on a miss runs optimize_params, during which time passes and other      *)
(* callers run, before it stores (now, best) with its own earlier now.     *)
(***************************************************************************)
OPT_TTL_SEC == 300
SgMaxNow == 460
SgMaxCalls == 2
SgSteps == {150, 151}

\* a variant that serves whatever entry there is
OptFreshAlways(rec, now) == rec # <<>>

\* rec and (now - rec[0]) <= _OPT_TTL_SEC
OptFresh(rec, now) == rec # <<>> /\ (now - rec[1].ts) <= OPT_TTL_SEC

InitSuggest ==
    /\ IdleCore
    /\ IdleHandlers
    /\ IdleSweep
    /\ IdleIndicators
    /\ sg_cache = <<>>
    /\ sg_now = 0
    /\ sg_pc = [c \in Callers |-> "idle"]
    /\ sg_start = [c \in Callers |-> 0]
    /\ sg_calls = [c \in Callers |-> 0]
    /\ sg_ret = [c \in Callers |-> NoReturn]

\* key, now, rec and the freshness test: the cached dict, or on to the try block
SuggestBegin(c) ==
    /\ sg_pc[c] = "idle"
    /\ sg_calls[c] < SgMaxCalls
    /\ sg_calls' = [sg_calls EXCEPT ![c] = @ + 1]
    /\ sg_start' = [sg_start EXCEPT ![c] = sg_now]
    /\ IF OptFresh(sg_cache, sg_now)
       THEN /\ sg_ret' = [sg_ret EXCEPT ![c] = [kind |-> "cached", best |-> sg_cache[1].best]]
            /\ UNCHANGED sg_pc
       ELSE /\ sg_ret' = [sg_ret EXCEPT ![c] = NoReturn]
            /\ sg_pc' = [sg_pc EXCEPT ![c] = "computing"]
    /\ UNCHANGED <<sg_cache, sg_now>>
    /\ UNCHANGED sgOthers

\* optimize_params returns best, stored under the caller's now, or raises
SuggestEnd(c) ==
    /\ sg_pc[c] = "computing"
    /\ sg_pc' = [sg_pc EXCEPT ![c] = "idle"]
    /\ \E raised \in BOOLEAN :
          IF raised
          THEN /\ sg_ret' = [sg_ret EXCEPT ![c] = [kind |-> "None"]]
               /\ UNCHANGED sg_cache
          ELSE /\ sg_cache' = << [ts |-> sg_start[c], best |-> <<c, sg_calls[c]>>] >>
               /\ sg_ret' = [sg_ret EXCEPT ![c] = [kind |-> "computed",
                                                   best |-> <<c, sg_calls[c]>>]]
    /\ UNCHANGED <<sg_now, sg_start, sg_calls>>
    /\ UNCHANGED sgOthers

SuggestTick ==
    /\ \E d \in SgSteps :
          /\ sg_now + d <= SgMaxNow
          /\ sg_now' = sg_now + d
    /\ UNCHANGED <<sg_cache, sg_pc, sg_start, sg_calls, sg_ret>>
    /\ UNCHANGED sgOthers

NextSuggest ==
    \/ \E c \in Callers : SuggestBegin(c)
    \/ \E c \in Callers : SuggestEnd(c)
    \/ SuggestTick

SpecSuggest == InitSuggest /\ [][NextSuggest]_vars

(***************************************************************************)
(* The bar data of one backtest_sweep / optimize_params call.  The signal  *)
(* history is computed once from fetch_ohlcv(symbol, "15m", limit); every  *)
(* cell's backtest_signals call reads base_frame through fetch_ohlcv       *)
(* again.  Evaluating a cell takes time, and the provider's latest 15m     *)
(* bar may change meanwhile.  A frame of limit bars is named by the number *)
(* of its last bar.                                                        *)
(***************************************************************************)
SwLimit == 3
SwCells == 2
SwMaxNow == 33
SwSteps == {10, 11}

\* the open_time labels of a frame of SwLimit bars ending with bar last
Window(last) == (last - SwLimit + 1) .. last

\* _cache_get for the sweep's key
SwCacheGet(cache, now) ==
    IF cache # <<>> /\ (now - cache[1].ts) <= OHLCV_TTL_SEC THEN cache ELSE <<>>

\* fetch_ohlcv: the cached frame, else the provider's frame (stored), else
\* the exception after all providers failed
SwFetch(cache, now, latest) ==
    IF SwCacheGet(cache, now) # <<>>
    THEN { [error |-> "none", last |-> cache[1].last, cache |-> cache] }
    ELSE { [error |-> "none", last |-> latest, cache |-> << [ts |-> now, last |-> latest] >>],
           [error |-> "HTTP502", last |-> 0, cache |-> cache] }

InitSweep ==
    /\ IdleCore
    /\ IdleHandlers
    /\ IdleSuggest
    /\ IdleIndicators
    /\ sw_now = 0
    /\ sw_latest = SwLimit
    /\ sw_cache \in { <<>>, << [ts |-> 0, last |-> SwLimit] >> }
    /\ sw_signals = 0
    /\ sw_frames = <<>>
    /\ sw_pc = "start"

\* signals = generate_signal_history(symbol, limit)
SweepStart ==
    /\ sw_pc = "start"
    /\ \E f \in SwFetch(sw_cache, sw_now, sw_latest) :
          /\ sw_cache' = f.cache
          /\ IF f.error = "none"
             THEN sw_signals' = f.last /\ sw_pc' = "cells"
             ELSE sw_pc' = "raised" /\ UNCHANGED sw_signals
    /\ UNCHANGED <<sw_now, sw_latest, sw_frames>>
    /\ UNCHANGED swOthers

\* one cell: backtest_signals(..., signals=signals.copy()) and its
\* base_frame = prepare_frame(fetch_ohlcv(symbol, "15m", limit))
SweepCell ==
    /\ sw_pc = "cells"
    /\ \E f \in SwFetch(sw_cache, sw_now, sw_latest) :
          /\ sw_cache' = f.cache
          /\ IF f.error = "none"
             THEN /\ sw_frames' = Append(sw_frames, f.last)
                  /\ sw_pc' = IF Len(sw_frames) + 1 = SwCells THEN "returned" ELSE "cells"
             ELSE sw_pc' = "raised" /\ UNCHANGED sw_frames
    /\ UNCHANGED <<sw_now, sw_latest, sw_signals>>
    /\ UNCHANGED swOthers

\* time passes while the history or a cell is computed; a new 15m bar opens
\* at most once within the duration covered
SweepTick ==
    /\ sw_pc \in {"start", "cells"}
    /\ \E d \in SwSteps :
          /\ sw_now + d <= SwMaxNow
          /\ sw_now' = sw_now + d
    /\ \E opened \in BOOLEAN :
          sw_latest' = IF opened /\ sw_latest = SwLimit THEN sw_latest + 1 ELSE sw_latest
    /\ UNCHANGED <<sw_cache, sw_signals, sw_frames, sw_pc>>
    /\ UNCHANGED swOthers

NextSweep == SweepStart \/ SweepCell \/ SweepTick

SpecSweep == InitSweep /\ [][NextSweep]_vars

(***************************************************************************)
(* add_indicators: the indicator computations in source order.  Whether a  *)
(* computation of the ta library raises depends on the frame; ind_fails    *)
(* names the ones that do.  A column of df is "computed", or holds the     *)
(* value an except branch assigned: "nan", "false" or "zero".              *)
(***************************************************************************)
IndMaxFails == 2

Indicators ==
    << "ema", "macd", "rsi", "adx", "bollinger", "atr", "keltner", "mfi", "obv", "cmf",
       "stochrsi", "vwap", "donchian", "chop" >>

\* the computations inside a try / except Exception block
Guarded == {"keltner", "mfi", "obv", "cmf", "stochrsi", "vwap", "donchian", "chop"}

\* the indicators by name
IndicatorNames == { Indicators[k] : k \in 1 .. Len(Indicators) }

\* the columns an indicator's block assigns from the library's output
Columns(ind) ==
    CASE ind = "ema" -> {"ema_fast", "ema_slow"}
      [] ind = "macd" -> {"macd", "macd_signal", "macd_hist"}
      [] ind = "rsi" -> {"rsi"}
      [] ind = "adx" -> {"adx"}
      [] ind = "bollinger" -> {"bb_high", "bb_low", "bb_mid"}
      [] ind = "atr" -> {"atr"}
      [] ind = "keltner" -> {"kc_high", "kc_low", "squeeze_on"}
      [] ind = "mfi" -> {"mfi"}
      [] ind = "obv" -> {"obv"}
      [] ind = "cmf" -> {"cmf"}
      [] ind = "stochrsi" -> {"stoch_rsi", "stoch_rsi_k", "stoch_rsi_d"}
      [] ind = "vwap" -> {"vwap", "above_vwap"}
      [] ind = "donchian" -> {"donchian_h", "donchian_l", "donchian_mid",
                              "donchian_break_up", "donchian_break_dn"}
      [] ind = "chop" -> {"chop"}

\* what the except branch of a block assigns to a column
Neutral(col) ==
    IF col = "squeeze_on" THEN "false"
    ELSE IF col \in {"above_vwap", "donchian_break_up", "donchian_break_dn"} THEN "zero"
    ELSE "nan"

\* the columns computed from other columns right after an indicator's block
DerivedAfter(ind) ==
    CASE ind = "atr" -> { <<"atr_pct", {"atr"}>>, <<"ema_fast_slope", {"ema_fast"}>>,
                          <<"ema_slow_slope", {"ema_slow"}>>,
                          <<"bb_width", {"bb_high", "bb_low", "bb_mid"}>> }
      [] ind = "keltner" -> { <<"dist_from_mid_atr", {"bb_mid", "atr"}>> }
      [] ind = "chop" -> { <<"obv_slope", {"obv"}>>, <<"vwap_dev_atr", {"vwap", "atr"}>> }
      [] OTHER -> {}

\* df after the block of ind, which assigns the library's output or, in the
\* except branch, the neutral values
Assigned(df, ind, failed) ==
    [ c \in Columns(ind) |-> IF failed THEN Neutral(c) ELSE "computed" ] @@ df

\* df after the derived columns that follow the block of ind
WithDerived(df, ind) ==
    [ c \in { d[1] : d \in DerivedAfter(ind) } |->
        LET from == (CHOOSE d \in DerivedAfter(ind) : d[1] = c)[2]
        IN  IF \A x \in from : df[x] = "computed" THEN "computed" ELSE "nan" ] @@ df

InitIndicators ==
    /\ IdleCore
    /\ IdleHandlers
    /\ IdleSuggest
    /\ IdleSweep
    /\ ind_fails \in { F \in SUBSET IndicatorNames : Cardinality(F) <= IndMaxFails }
    /\ ind_pc = [at |-> "running", step |-> 1]
    /\ ind_df = <<>>

\* the block of the next indicator: an exception outside a try block leaves
\* add_indicators
AddIndicatorsStep ==
    /\ ind_pc.at = "running"
    /\ LET ind == Indicators[ind_pc.step]
       IN  IF ind \in ind_fails /\ ind \notin Guarded
           THEN /\ ind_pc' = [at |-> "raised", step |-> ind_pc.step]
                /\ UNCHANGED ind_df
           ELSE /\ ind_df' = WithDerived(Assigned(ind_df, ind, ind \in ind_fails), ind)
                /\ ind_pc' = IF ind_pc.step = Len(Indicators)
                              THEN [at |-> "returned", step |-> ind_pc.step]
                              ELSE [at |-> "running", step |-> ind_pc.step + 1]
    /\ UNCHANGED ind_fails
    /\ UNCHANGED indOthers

NextIndicators == AddIndicatorsStep

SpecIndicators == InitIndicators /\ [][NextIndicators]_vars

(***************************************************************************)
(* Claims about compute_signal_row                                         *)
(***************************************************************************)
OverrideFired ==
    \/ sig_side = "BUY" /\ sig_score >= 1440
    \/ sig_side = "SELL" /\ sig_score <= 960

\* C1: compute_signal_row returns a score in [0,1] and a side in
\* {BUY, SELL, HOLD}; a side other than HOLD has both regime flags true or
\* comes from the score override (score >= 0.6 BUY, score <= 0.4 SELL).
C1_ScoreSideContract ==
    sig_pc = "done" =>
        /\ 0 <= sig_score /\ sig_score <= 2400
        /\ sig_side \in {"BUY", "SELL", "HOLD"}
        /\ sig_side # "HOLD" =>
              \/ regime_filters(base_row).adx_ok /\ regime_filters(base_row).vol_ok
              \/ OverrideFired

\* C1 witness: a BUY decided by the override while vol_ok is false.
C1_Witness ==
    /\ sig_pc = "done"
    /\ sig_side = "BUY"
    /\ ~regime_filters(base_row).vol_ok
    /\ sig_score = 2400

\* C2 as stated: with atr_pct = 0 on the bar, vol_ok is false and the side
\* is HOLD whatever the votes.
C2_FlatAlwaysHold ==
    (sig_pc = "done" /\ base_row.atr_pct = 0) =>
        /\ ~regime_filters(base_row).vol_ok
        /\ sig_side = "HOLD"

\* C2 amended: with atr_pct = 0 on the bar, vol_ok is false, so the gated
\* branch never decides; the side is BUY exactly when score >= 0.6, SELL
\* exactly when score <= 0.4, and HOLD exactly when 0.4 < score < 0.6.
C2_FlatHoldUnlessOverride ==
    (sig_pc = "done" /\ base_row.atr_pct = 0) =>
        /\ ~regime_filters(base_row).vol_ok
        /\ (sig_side = "BUY") <=> (sig_score >= 1440)
        /\ (sig_side = "SELL") <=> (sig_score <= 960)
        /\ (sig_side = "HOLD") <=> (960 < sig_score /\ sig_score < 1440)

\* C2 witness: a zero-volatility bar whose side is SELL through the override.
C2_Witness ==
    /\ sig_pc = "done"
    /\ base_row.atr_pct = 0
    /\ directional_vote(base_row) < 0
    /\ sig_side = "SELL"

(***************************************************************************)
(* Claims about backtest_signals                                           *)
(***************************************************************************)
\* C3: every trade has net_return = gross_return - cost_return, where
\* cost_return = (2*commission_bps + 2*slippage_bps)/10000 is one value for
\* all trades of the run, in both modes; (4, 1) gives 0.001.
C3_NetIsGrossMinusCost ==
    bt_pc = "done" =>
    LET cost == Rat(2 * bt_params.commission_bps + 2 * bt_params.slippage_bps, 10000)
    IN  /\ bt_report.cost_return = cost
        /\ (bt_params.commission_bps = 4 /\ bt_params.slippage_bps = 1) => cost = <<1, 1000>>
        /\ \A k \in 1..Len(bt_active) :
              /\ bt_active[k].cost_return = cost
              /\ bt_active[k].net_return = RatSub(bt_active[k].gross_return, cost)

C3_Witness ==
    /\ bt_pc = "done"
    /\ bt_params.mode = "atr_tp_sl"
    /\ bt_params.commission_bps = 4
    /\ Len(bt_active) >= 2
    /\ bt_active[1].gross_return # bt_active[2].gross_return

HasWin == \E k \in 1..Len(bt_active) : RatPos(bt_active[k].net_value)
HasLoss == \E k \in 1..Len(bt_active) : RatNegative(bt_active[k].net_value)

\* C4: profit_factor >= 0; it is infinite iff there is at least one winning
\* trade and no losing trade; with a loss it is |sum of wins| / |sum of losses|.
C4_ProfitFactorContract ==
    bt_pc = "done" =>
    /\ bt_report.profit_factor # RatNaN
    /\ bt_report.profit_factor[1] >= 0
    /\ bt_report.profit_factor = RatInf <=> (HasWin /\ ~HasLoss)
    /\ HasLoss =>
         bt_report.profit_factor =
             RatDiv(RatAbs(RatSum(Positives(NetValues(bt_active)))),
                    RatAbs(RatSum(Negatives(NetValues(bt_active)))))

\* C5: max_drawdown <= 0, and exactly 0 when the compounded equity never
\* falls below its running maximum, also with a net_return below -1.
C5_MaxDrawdownNonPositive ==
    (bt_pc = "done" /\ Len(bt_active) > 0) =>
    LET equity == Equity(NetReturns(bt_active))
    IN  /\ IsFinite(bt_report.max_drawdown)
        /\ bt_report.max_drawdown[1] <= 0
        /\ (\A k \in 1..Len(equity) : equity[k] = CumMax(equity)[k])
              => bt_report.max_drawdown = Rat0

\* The rows of signals that the run selects, and whether a selected row has
\* two levels that no bar of its path touches.
SelectedRows ==
    { i \in 1..Len(bt_signals) :
        Selected(bt_signals, i, bt_params.threshold, bt_params.horizon) }
HasLevels(i) ==
    LET lv == LevelsOf(bt_frame, bt_signals[i])
    IN  lv.sl # NaN /\ lv.tp # NaN
Untouched(i) ==
    LET lv   == LevelsOf(bt_frame, bt_signals[i])
        path == PathOf(bt_frame, i, bt_params.horizon)
    IN  \A j \in 1..Len(path) :
            /\ ~HitSl(bt_signals[i].side, path[j], lv)
            /\ ~HitTp(bt_signals[i].side, path[j], lv)
TradeOf(i) == CHOOSE k \in 1..Len(bt_active) : bt_active[k].ts = i

\* C8: in atr_tp_sl mode a selected row whose levels are touched by none of
\* the bars t+1 .. t+horizon gets the gross_return of horizon mode,
\* direction * (close[t+horizon]/close[t] - 1).
C8_UntouchedEqualsHorizon ==
    (bt_pc # "ready" /\ bt_params.mode = "atr_tp_sl") =>
    \A i \in SelectedRows :
        (HasLevels(i) /\ Untouched(i)) =>
            /\ bt_pc = "done"
            /\ bt_active[TradeOf(i)].gross_return =
                   RatScale(Direction(bt_signals[i].side),
                            FwdReturn(bt_signals, i, bt_params.horizon))

\* C9: with no selected row the run returns a report without raising, in
\* both modes and with bootstrap requested; every statistic is 0 and every
\* list, and the bootstrap block, is empty.
C9_EmptyTradeSetDefaults ==
    (bt_pc # "ready" /\ SelectedRows = {}) =>
    /\ bt_pc = "done"
    /\ bt_report.trades = 0
    /\ bt_report.hit_rate = Rat0
    /\ bt_report.sharpe_sign = 0 /\ bt_report.sortino_sign = 0
    /\ bt_report.max_drawdown = Rat0 /\ bt_report.profit_factor = Rat0
    /\ bt_report.win_loss_ratio = Rat0 /\ bt_report.expectancy = Rat0
    /\ bt_report.avg_win = Rat0 /\ bt_report.avg_loss = Rat0
    /\ bt_report.gross_value_sum = Rat0 /\ bt_report.net_value_sum = Rat0
    /\ bt_report.gross_return_sum = Rat0 /\ bt_report.net_return_sum = Rat0
    /\ bt_report.equity_curve = <<>> /\ bt_report.history = <<>>
    /\ bt_report.regime_metrics = <<>> /\ bt_report.score_buckets = <<>>
    /\ bt_report.weekday_breakdown = <<>> /\ bt_report.bootstrap = <<>>
    /\ bt_report.side_breakdown.buy = empty_side_summary
    /\ bt_report.side_breakdown.sell = empty_side_summary
    /\ bt_report.streaks = [longest_win |-> 0, longest_loss |-> 0]

C9_Witness ==
    /\ bt_pc = "done"
    /\ bt_report.trades = 0
    /\ bt_params.mode = "atr_tp_sl"
    /\ bt_params.bootstrap = 50
    /\ \E i \in 1..Len(bt_signals) : bt_signals[i].side = "BUY"

(***************************************************************************)
(* Claims about optimize_params                                            *)
(***************************************************************************)
SeqRange(q) == { q[k] : k \in 1..Len(q) }

\* C6: with a non-empty thresholds list and a non-empty horizons list
\* optimize_params returns, never raises, a candidate with the six fields
\* whose threshold and horizon are elements of the supplied lists, with and
\* without walk-forward.
C6_NonEmptyGridReturnsCandidate ==
    (opt_pc \in {"returned", "raised"} /\ opt_args.thresholds # <<>> /\ opt_args.horizons # <<>>) =>
    /\ opt_pc = "returned"
    /\ Len(opt_result) = 1
    /\ DOMAIN opt_result[1] =
           {"threshold", "horizon", "trades", "hit_rate", "profit_factor", "net_return_sum"}
    /\ opt_result[1].threshold \in SeqRange(opt_args.thresholds)
    /\ opt_result[1].horizon \in SeqRange(opt_args.horizons)

\* No grid cell produced a best or a closest candidate (and none raised).
NoCellCandidate ==
    opt_locals.error = "none" /\ opt_locals.best = <<>> /\ opt_locals.closest = <<>>

FetchOrderly ==
    /\ Len(fetch_errors) <= 3 * fetch_nsources
    /\ \A k \in 1..Len(fetch_errors) :
          /\ fetch_errors[k].src = ((k - 1) \div 3) + 1
          /\ fetch_errors[k].try = ((k - 1) % 3) + 1
    /\ Len(fetch_slept) = IF fetch_pc = "sleep" THEN Len(fetch_errors) - 1
                          ELSE Len(fetch_errors)
    /\ \A k \in 1..Len(fetch_slept) : fetch_slept[k] = 2 ^ (fetch_errors[k].try - 1)

FetchOutcome ==
    /\ (fetch_pc = "returned" /\ fetch_result.from = "provider") =>
          /\ fetch_result.rows >= 50
          /\ fetch_cache = << [ts |-> fetch_now, rows |-> fetch_result.rows] >>
    /\ (fetch_pc = "raised" /\ fetch_result.kind = "HTTP502") =>
          Len(fetch_errors) = 3 * fetch_nsources
    /\ Len(fetch_errors) = 3 * fetch_nsources => fetch_pc \in {"sleep", "raised"}

\* C10: fetch_ohlcv always terminates; on a cache miss it tries the sources
\* in order, at most 3 attempts each, sleeping 0.2 * 2^attempt s after each
\* failure, returns and caches the first frame with at least 50 valid rows,
\* and raises HTTP 502 after the last attempt of the last source.
C10_FetchTerminates ==
    /\ [](FetchOrderly /\ FetchOutcome)
    /\ <>(fetch_pc \in {"returned", "raised"})

C10_Witness ==
    /\ fetch_pc = "raised"
    /\ fetch_result.kind = "HTTP502"
    /\ fetch_nsources = 2
    /\ fetch_slept = <<1, 2, 4, 1, 2, 4>>


(***************************************************************************)
(* Claims about the caches                                                 *)
(***************************************************************************)
\* an entry, or a reader's view of one, is nothing or one pair whose two
\* fields come from the same put, a put that some thread has started
Whole(e) ==
    \/ e = <<>>
    \/ /\ Len(e) = 1
       /\ e[1].ts = e[1].payload
       /\ e[1].ts[1] \in Threads
       /\ e[1].ts[2] \in 1 .. cache_ops[e[1].ts[1]]

\* C11: under every interleaving of the threads' gets and puts, each cache
\* key holds nothing or one complete (timestamp, payload) pair written by a
\* single put, a reader never sees the timestamp of one put with the payload
\* of another, and concurrent refreshes of a key leave the complete entry of
\* one of them.
C11_CacheEntriesWhole ==
    /\ \A c \in CacheNames : Whole(cache_store[c])
    /\ \A t \in Threads : Whole(cache_seen[t])
    /\ \A t \in Threads : cache_pc[t] = "get" => Whole(cache_rec[t])

\* two threads refreshed the same key with overlapping calls: the reader of
\* thread 2 unpacked the first put of thread 1 after thread 1 had begun its
\* second put, then both stored, thread 1 last
C11_Witness ==
    /\ cache_on[1] = "opt"
    /\ cache_on[2] = "opt"
    /\ cache_store["opt"] = <<Entry(1, 2)>>
    /\ cache_seen[2] = <<Entry(1, 1)>>
    /\ cache_ops[2] = OpsPerThread
    /\ cache_pc[2] = "idle"


(***************************************************************************)
(* Claims about compute_signal                                             *)
(***************************************************************************)
RowSignal == compute_signal_row(cs_base, cs_h1, cs_h4)

ClaimedBase == IF cs_opt = <<>> THEN 1440 ELSE cs_opt[1].threshold

ClaimedDynTh ==
    ClaimedBase
    + (IF ~AdxOk(cs_base) \/ (cs_base.atr_pct # NaN /\ cs_base.atr_pct < 15) THEN 120 ELSE 0)
    - (IF cs_base.adx # NaN /\ cs_base.adx >= 20
          /\ cs_base.atr_pct # NaN /\ 15 <= cs_base.atr_pct /\ cs_base.atr_pct <= 200
       THEN 48 ELSE 0)

\* C17: compute_signal reports the side of compute_signal_row, except that
\* BUY is kept only when score >= dyn_th and SELL only when score >=
\* dyn_th + 0.02 (otherwise HOLD), where dyn_th is the optimizer
\* suggestion's threshold (0.6 without a suggestion) plus 0.05 when adx_ok
\* is false or atr_pct < 0.0015, minus 0.02 when adx >= 20 and atr_pct lies
\* in [0.0015, 0.02].
C17_SideAgainstDynamicThreshold ==
    cs_pc = "done" =>
        cs_result.side =
            (IF RowSignal.side = "BUY"
             THEN (IF RowSignal.score >= ClaimedDynTh THEN "BUY" ELSE "HOLD")
             ELSE IF RowSignal.side = "SELL"
             THEN (IF RowSignal.score >= ClaimedDynTh + 48 THEN "SELL" ELSE "HOLD")
             ELSE "HOLD")

\* a BUY of compute_signal_row kept only thanks to the 0.02 allowance
C17_Witness ==
    /\ cs_pc = "done"
    /\ cs_opt # <<>>
    /\ RowSignal.side = "BUY"
    /\ cs_result.side = "BUY"
    /\ RowSignal.score < ClaimedBase


(***************************************************************************)
(* Claims about the request handlers                                       *)
(***************************************************************************)
\* the step is a request (time stands still while a request is handled)
IsRequestStep ==
    /\ req_now' = req_now
    /\ <<req_cache, req_call, req_response>>' # <<req_cache, req_call, req_response>>

\* the fresh cached signal of the request's symbol before the request
CachedBefore ==
    IF IsStr(req_call'.symbol) THEN sig_cache_get(req_cache, req_now, req_call'.symbol) ELSE <<>>

ExpectedDegraded ==
    IF CachedBefore # <<>> THEN CachedBefore[1]
    ELSE IF IsStr(req_call'.symbol) THEN fallback_signal(req_call'.symbol)
    ELSE [fallback_signal("BTCUSDT") EXCEPT !.symbol = req_call'.symbol]

AnsweredAsClaimed ==
    /\ req_response'.status = 200
    /\ req_response'.ok
    /\ IF req_call'.outcome = "ok"
       THEN /\ req_response'.stale = FALSE
            /\ req_cache'[Upper(req_call'.symbol)] =
                    <<[ts |-> req_now, data |-> req_response'.data]>>
       ELSE /\ req_response'.stale = TRUE
            /\ req_response'.data = ExpectedDegraded
            /\ req_cache' = req_cache

\* C12: every request to /signals or /predict is answered with HTTP 200;
\* when compute_signal succeeds the answer has stale = false and the result
\* is in the signal cache; when it fails the answer has stale = true and
\* carries the cached signal of that symbol if it is at most SIG_TTL_SEC
\* old, else the neutral fallback; a failed request leaves the signal cache
\* as it was.
C12_FailuresNeverSurface == [][IsRequestStep => AnsweredAsClaimed]_vars

\* the same contract for the requests whose symbol is a string
C12_StringSymbolsServed ==
    [][(IsRequestStep /\ IsStr(req_call'.symbol)) => AnsweredAsClaimed]_vars


(***************************************************************************)
(* Claims about directional_vote                                           *)
(***************************************************************************)
SignalRows == {base_row, h1_row, h4_row}

\* the fields directional_vote reads
VoteFields(row) ==
    << row.ema_fast, row.ema_slow, row.ema_fast_slope, row.ema_slow_slope, row.macd_hist,
       row.rsi, row.bb_mid, row.close, row.stoch_rsi_k, row.stoch_rsi_d, row.vwap,
       row.obv_slope, row.vwap_dev_atr >>

AllUndefined(row) ==
    /\ \A i \in 1 .. Len(VoteFields(row)) : VoteFields(row)[i] = NaN
    /\ row.donchian_break_up = 0
    /\ row.donchian_break_dn = 0

AgreesInSign(v_base, v) == (v_base > 0 /\ v > 0) \/ (v_base < 0 /\ v < 0)

ClaimedScore(v_base, v_h1, v_h4, adx_ok, vol_ok) ==
    Max(0, Min(2400,
        9 * Max(0, Min(120, v_base + 60)) + 6 * Max(0, Min(120, v_h1 + 60))
        + 3 * Max(0, Min(120, v_h4 + 60))
        + (IF AgreesInSign(v_base, v_h1) THEN 600 ELSE 0)
        + (IF AgreesInSign(v_base, v_h4) THEN 600 ELSE 0)
        + (IF adx_ok THEN 480 ELSE -480) + (IF vol_ok THEN 480 ELSE -480)))

\* C20: the score returned for the three rows is clamp(0.45*n(v_base) +
\* 0.30*n(v_h1) + 0.15*n(v_h4) + align + regime, 0, 1) with n(v) =
\* clamp((v+3)/6, 0, 1), regime = +0.2 or -0.2 per flag, and align = 0.25
\* per higher timeframe whose vote agrees in sign with v_base, a vote of
\* exactly 0 earning nothing.
C20_ScoreFormula ==
    sig_pc = "done" =>
        sig_score = ClaimedScore(directional_vote(base_row), directional_vote(h1_row),
                                 directional_vote(h4_row), AdxOk(base_row), VolOk(base_row))


(***************************************************************************)
(* Claims about adaptive_sl_tp                                             *)
(***************************************************************************)
NoLevels == lv_out.sl = NaN /\ lv_out.tp = NaN

TwoLevels == lv_out.sl # NaN /\ lv_out.tp # NaN

UsableArgs ==
    /\ lv_args.price # NaN /\ lv_args.price > 0
    /\ lv_args.atr # NaN /\ lv_args.atr > 0
    /\ lv_args.side \in {"BUY", "SELL"}

\* C18: adaptive_sl_tp returns (null, null) whenever price <= 0, atr <= 0,
\* price or atr is undefined, or the side is HOLD, and two levels exactly
\* for side BUY or SELL with price > 0 and atr > 0.
C18_LevelsOnlyForUsableArgs ==
    lv_pc = "done" => (IF UsableArgs THEN TwoLevels ELSE NoLevels)

\* the multiples the claim names, times ten
ClaimedTpK == IF lv_args.adx # NaN /\ lv_args.adx >= 20 THEN 25 ELSE 20

ClaimedSlK == IF lv_args.atr_pct # NaN /\ lv_args.atr_pct <= 200 THEN 12 ELSE 15

\* x, in cents, is the value of x10, in tenths of a cent, rounded to the cent
IsRounded(x, x10) == 10 * x - x10 \in -5 .. 5

\* C19: for side BUY or SELL with price > 0 and atr > 0, tp_multiple is 2.5
\* when adx >= 20 and 2.0 otherwise, sl_multiple is 1.2 for every atr_pct
\* <= 0.02, atr_pct = 0 included, and 1.5 otherwise; BUY gets sl = price -
\* sl_multiple*atr and tp = price + tp_multiple*atr (to the cent), SELL the
\* mirror image, so that sl < price < tp for BUY and tp < price < sl for SELL.
C19_MultiplesAndOrder ==
    (lv_pc = "done" /\ UsableArgs) =>
        /\ TwoLevels
        /\ IF lv_args.side = "BUY"
           THEN /\ IsRounded(lv_out.sl, 10 * lv_args.price - ClaimedSlK * lv_args.atr)
                /\ IsRounded(lv_out.tp, 10 * lv_args.price + ClaimedTpK * lv_args.atr)
                /\ lv_out.sl < lv_args.price /\ lv_args.price < lv_out.tp
           ELSE /\ IsRounded(lv_out.sl, 10 * lv_args.price + ClaimedSlK * lv_args.atr)
                /\ IsRounded(lv_out.tp, 10 * lv_args.price - ClaimedTpK * lv_args.atr)
                /\ lv_out.tp < lv_args.price /\ lv_args.price < lv_out.sl


(***************************************************************************)
(* Claims about the trade rows of backtest_signals                         *)
(***************************************************************************)
TradedRows == { bt_active[k].ts : k \in 1 .. Len(bt_active) }

\* C16: in a run that returns, a signal row is a trade exactly when its side
\* is BUY or SELL, its score is >= threshold and a row exists horizon
\* positions later; each such row is one trade with direction +1 for BUY and
\* -1 for SELL; HOLD rows and the trailing horizon rows are never trades.
C16_TradesAreSelectedRows ==
    /\ bt_pc = "done" =>
        /\ \A i \in 1 .. Len(bt_signals) :
              (i \in TradedRows) <=>
                  /\ bt_signals[i].side \in {"BUY", "SELL"}
                  /\ bt_signals[i].score >= bt_params.threshold
                  /\ i + bt_params.horizon <= Len(bt_signals)
        /\ Cardinality(TradedRows) = Len(bt_active)
        /\ \A k \in 1 .. Len(bt_active) :
              /\ bt_active[k].side = bt_signals[bt_active[k].ts].side
              /\ bt_active[k].direction = (IF bt_active[k].side = "BUY" THEN 1 ELSE -1)
    /\ \A k \in 1 .. Len(bt_active) :
          /\ bt_signals[bt_active[k].ts].side # "HOLD"
          /\ bt_active[k].ts + bt_params.horizon <= Len(bt_signals)

\* a returned run with a SELL trade, a HOLD row above the threshold and a
\* trailing BUY row above the threshold
C16_Witness ==
    /\ bt_pc = "done"
    /\ Len(bt_active) = 1
    /\ bt_active[1].direction = -1
    /\ \E i \in 1 .. Len(bt_signals) :
          bt_signals[i].side = "HOLD" /\ bt_signals[i].score >= bt_params.threshold
    /\ bt_signals[Len(bt_signals)].side = "BUY"
    /\ bt_signals[Len(bt_signals)].score >= bt_params.threshold


(***************************************************************************)
(* Claims about the scan of the forward bars in atr_tp_sl mode             *)
(***************************************************************************)
\* bar j of the forward bars of row i touches a level of the row
TouchedSl(i, j) ==
    LET lv  == LevelsOf(bt_frame, bt_signals[i])
        bar == bt_frame[i + j]
    IN  IF bt_signals[i].side = "BUY" THEN bar.low <= lv.sl ELSE bar.high >= lv.sl

TouchedTp(i, j) ==
    LET lv  == LevelsOf(bt_frame, bt_signals[i])
        bar == bt_frame[i + j]
    IN  IF bt_signals[i].side = "BUY" THEN bar.high >= lv.tp ELSE bar.low <= lv.tp

ForwardBars(i) == 1 .. Min(bt_params.horizon, Len(bt_frame) - i)

TouchedBars(i) == { j \in ForwardBars(i) : TouchedSl(i, j) \/ TouchedTp(i, j) }

FirstTouched(i) == CHOOSE j \in TouchedBars(i) : \A m \in TouchedBars(i) : j <= m

\* the return of leaving the position of row i at the price exit
ReturnAt(i, exit) ==
    IF bt_signals[i].side = "BUY"
    THEN Rat(exit - bt_frame[i].close, bt_frame[i].close)
    ELSE Rat(bt_frame[i].close - exit, bt_frame[i].close)

\* C15: in atr_tp_sl mode the gross_return of a trade whose levels are
\* touched within bars t+1 .. t+horizon is decided by the earliest touched
\* bar alone: the take-profit return when that bar touches the take-profit
\* (also when it touches both levels), the stop-loss return otherwise;
\* what later bars touch does not matter.
C15_FirstTouchDecides ==
    (bt_pc = "done" /\ bt_params.mode = "atr_tp_sl") =>
        \A k \in 1 .. Len(bt_active) :
            LET i  == bt_active[k].ts
                lv == LevelsOf(bt_frame, bt_signals[i])
            IN  TouchedBars(i) # {} =>
                    bt_active[k].gross_return =
                        (IF TouchedTp(i, FirstTouched(i))
                         THEN ReturnAt(i, lv.tp) ELSE ReturnAt(i, lv.sl))

\* a trade over two forward bars: the first touches both levels, or only the
\* stop-loss, and the second touches a level again
C15_Witness ==
    /\ bt_pc = "done"
    /\ bt_params.mode = "atr_tp_sl"
    /\ bt_params.horizon = 2
    /\ Len(bt_active) = 1
    /\ bt_active[1].ts = 1
    /\ TouchedSl(1, 1) /\ TouchedTp(1, 1)
    /\ TouchedSl(1, 2) /\ ~TouchedTp(1, 2)


(***************************************************************************)
(* Claims about the choice optimize_params makes among the grid cells      *)
(***************************************************************************)
Evaluated == { opt_locals.cands[k] : k \in 1 .. Len(opt_locals.cands) }

\* hit_rate >= target_hit, trades >= min_trades, profit_factor >= 1.3
MeetsTarget(c) ==
    /\ RatLeq(opt_args.target_hit, c.hit_rate)
    /\ c.trades >= opt_args.min_trades
    /\ (c.profit_factor = RatInf
          \/ (IsFinite(c.profit_factor) /\ RatLeq(<<13, 10>>, c.profit_factor)))

HitGap(c) == RatAbs(RatSub(c.hit_rate, opt_args.target_hit))

\* C14: a returned result is one of the evaluated cells; when some cell has
\* hit_rate >= target_hit, trades >= min_trades and profit_factor >= 1.3 it
\* is such a cell and none of them has a larger net_return_sum; otherwise
\* no cell has a smaller |hit_rate - target_hit|, and none with the same gap
\* has a larger net_return_sum.
C14_BestElseClosest ==
    (opt_pc = "returned" /\ Evaluated # {}) =>
        /\ Len(opt_result) = 1
        /\ opt_result[1] \in Evaluated
        /\ IF \E c \in Evaluated : MeetsTarget(c)
           THEN /\ MeetsTarget(opt_result[1])
                /\ \A c \in Evaluated :
                      MeetsTarget(c) => RatLeq(c.net_return_sum, opt_result[1].net_return_sum)
           ELSE \A c \in Evaluated :
                  /\ RatLeq(HitGap(opt_result[1]), HitGap(c))
                  /\ HitGap(c) = HitGap(opt_result[1])
                        => RatLeq(c.net_return_sum, opt_result[1].net_return_sum)

\* the returned cell meets the target and is not the first cell that does
C14_Witness ==
    /\ opt_pc = "returned"
    /\ Len(opt_result) = 1
    /\ MeetsTarget(opt_result[1])
    /\ \E k \in 1 .. Len(opt_locals.cands) :
          /\ MeetsTarget(opt_locals.cands[k])
          /\ opt_locals.cands[k] # opt_result[1]
          /\ \A m \in 1 .. k : opt_locals.cands[m] # opt_result[1]


(***************************************************************************)
(* Claims about rows without usable levels in atr_tp_sl mode               *)
(***************************************************************************)
\* C24: an atr_tp_sl run returns a report whatever the levels of its
\* selected rows are, and a trade whose row has no two usable levels has the
\* return of the close of the last scanned bar.
C24_EventModeCompletes ==
    (bt_pc # "ready" /\ bt_params.mode = "atr_tp_sl") =>
        /\ bt_pc = "done"
        /\ \A k \in 1 .. Len(bt_active) :
              LET i == bt_active[k].ts
              IN  ~LevelsUsable(LevelsOf(bt_frame, bt_signals[i])) =>
                      bt_active[k].gross_return =
                          ReturnAt(i, bt_frame[Min(i + bt_params.horizon, Len(bt_frame))].close)

(***************************************************************************)
(* Claims about the eligibility of cells without a losing trade            *)
(***************************************************************************)
\* every trade of the cell is a winner (whole-history evaluation)
OnlyWinners(c) == c.trades >= 1 /\ c.hit_rate = Rat1

\* C25: a cell evaluated over the whole history whose trades are all
\* winners, with hit_rate >= target_hit and trades >= min_trades, has a
\* profit factor that passes the test profit_factor >= 1.3, so the run
\* returns a cell that meets the three conditions.
C25_WinnerOnlyCellsEligible ==
    (opt_pc = "returned" /\ FoldRanges(opt_args, Len(opt_signals)) = <<>>) =>
        \A c \in Evaluated :
            (OnlyWinners(c) /\ RatLeq(opt_args.target_hit, c.hit_rate)
                /\ c.trades >= opt_args.min_trades) =>
                /\ MeetsTarget(c)
                /\ MeetsTarget(opt_result[1])


(***************************************************************************)
(* Claims about the walk-forward folds of optimize_params                  *)
(***************************************************************************)
\* C22: cells are evaluated fold by fold exactly when walkforward is
\* requested, the history has a datetime index and it has at least folds*50
\* rows (exactly folds*50 rows qualifies); otherwise each cell is evaluated
\* once over the whole history.
C22_FoldsExactlyWhenQualified ==
    opt_pc \in {"returned", "raised"} =>
        ( opt_locals.fold_ranges # <<>>
          <=> ( /\ opt_args.walkforward
                /\ IsDatetimeIndex
                /\ Len(opt_signals) >= opt_args.folds * RowsPerFoldForWalkforward ) )

FoldLen(range) == range[2] - range[1] + 1

FoldsOf(row) ==
    { i \in 1 .. Len(opt_locals.fold_ranges) :
        opt_locals.fold_ranges[i][1] <= row /\ row <= opt_locals.fold_ranges[i][2] }

\* C23: the fold ranges are contiguous and non-overlapping and cover the
\* whole history: every row belongs to exactly one fold, fold i ends before
\* fold i+1 starts, and fold lengths differ by at most one row.
C23_FoldsPartitionHistory ==
    (opt_pc \in {"returned", "raised"} /\ opt_locals.fold_ranges # <<>>) =>
        LET R == opt_locals.fold_ranges
        IN  /\ Len(R) = opt_args.folds
            /\ \A row \in 1 .. Len(opt_signals) : Cardinality(FoldsOf(row)) = 1
            /\ \A i \in 1 .. Len(R) : 1 <= R[i][1] /\ R[i][1] <= R[i][2]
                                        /\ R[i][2] <= Len(opt_signals)
            /\ \A i \in 1 .. Len(R) - 1 : R[i][2] + 1 = R[i + 1][1]
            /\ \A i, j \in 1 .. Len(R) : FoldLen(R[i]) - FoldLen(R[j]) <= 1

\* folds of unequal length were built
C23_Witness ==
    /\ opt_pc = "returned"
    /\ opt_locals.fold_ranges # <<>>
    /\ \E i, j \in 1 .. Len(opt_locals.fold_ranges) :
           FoldLen(opt_locals.fold_ranges[i]) # FoldLen(opt_locals.fold_ranges[j])

\* the (fold, trade) pairs of a cell when every fold is evaluated
TradesOfAllFolds(cand) ==
    UNION { { <<i, k>> :
                k \in 1 .. Len(ActiveIdx(SubSeq(opt_signals, opt_locals.fold_ranges[i][1],
                                                opt_locals.fold_ranges[i][2]),
                                         cand.threshold, cand.horizon)) } :
            i \in 1 .. Len(opt_locals.fold_ranges) }

\* C26: when the fold ranges are built, every fold is evaluated for every
\* cell, so a cell's trades are the sum of the trades of all folds.
C26_EveryFoldEvaluated ==
    (opt_pc = "returned" /\ opt_locals.fold_ranges # <<>>) =>
        \A c \in Evaluated : c.trades = Cardinality(TradesOfAllFolds(c))


(***************************************************************************)
(* Claims about the cells of a sweep                                       *)
(***************************************************************************)
GridThresholds == {960, 1200, 1440, 1680, 1800, 2040}
GridHorizons == 1 .. NBars

\* the number of rows backtest_signals selects from the run's history
RunTrades(th, hz) == Len(ActiveIdx(bt_signals, th, hz))

C29_TimestampNeverDecreases ==
    [][ (sg_cache # <<>> /\ sg_cache' # <<>>) => sg_cache'[1].ts >= sg_cache[1].ts ]_vars

\* fetch_ohlcv: a frame comes from the cache only while the entry is at most
\* OHLCV_TTL_SEC old; a call that raises leaves the cache as it was
FetchServesFresh ==
    /\ (fetch_pc = "start" /\ fetch_pc' = "returned") =>
          /\ fetch_result'.from = "cache"
          /\ fetch_cache # <<>>
          /\ fetch_now - fetch_cache[1].ts <= OHLCV_TTL_SEC * UnitsPerSecond
          /\ fetch_result'.rows = fetch_cache[1].rows
    /\ (fetch_pc # "start" /\ fetch_pc' = "returned") => fetch_result'.from = "provider"
    /\ (fetch_pc # "raised" /\ fetch_pc' = "raised") =>
          /\ fetch_cache' = fetch_cache
          /\ fetch_result'.kind # "frame"

\* the handlers' except branches: a cached signal is served only while it is
\* at most SIG_TTL_SEC old, and the signal cache is left as it was
SigServesFresh ==
    (IsRequestStep /\ req_call'.outcome # "ok" /\ IsStr(req_call'.symbol)) =>
        LET rec == req_cache[Upper(req_call'.symbol)]
        IN  /\ req_cache' = req_cache
            /\ req_response'.data # fallback_signal(req_call'.symbol) =>
                  /\ rec # <<>>
                  /\ req_now - rec[1].ts <= SIG_TTL_SEC
                  /\ req_response'.data = rec[1].data

\* _get_optimizer_suggestion: a call returns at once only with an entry at
\* most OPT_TTL_SEC old; a call that finds an older entry recomputes; a
\* recomputation returns its own result, or None with the cache untouched
OptServesFresh ==
    \A c \in Callers :
        /\ (sg_calls'[c] # sg_calls[c] /\ sg_pc'[c] = "idle") =>
              /\ sg_cache # <<>>
              /\ sg_now - sg_cache[1].ts <= OPT_TTL_SEC
              /\ sg_ret'[c] = [kind |-> "cached", best |-> sg_cache[1].best]
        /\ (sg_pc[c] = "computing" /\ sg_pc'[c] = "idle") =>
              \/ sg_ret'[c].kind = "None" /\ sg_cache' = sg_cache
              \/ /\ sg_ret'[c].kind = "computed"
                 /\ sg_cache' # <<>>
                 /\ sg_ret'[c].best = sg_cache'[1].best
                 /\ sg_ret'[c].best = <<c, sg_calls[c]>>

C27_CellsReadTheHistoryBars ==
    sw_signals # 0 =>
        /\ sw_pc # "raised"
        /\ \A k \in 1 .. Len(sw_frames) : Window(sw_signals) \subseteq Window(sw_frames[k])


(***************************************************************************)
(* Claims about add_indicators                                             *)
(***************************************************************************)
\* C21: add_indicators never aborts because an indicator computation fails:
\* the frame is returned, a failed indicator's columns are undefined or
\* neutral, and every other indicator's columns are computed.
C21_IndicatorFailuresContained ==
    ind_pc.at \in {"returned", "raised"} =>
        /\ ind_pc.at = "returned"
        /\ \A k \in 1 .. Len(Indicators) :
              \A c \in Columns(Indicators[k]) :
                  ind_df[c] = IF Indicators[k] \in ind_fails THEN Neutral(c) ELSE "computed"

====
